---- MODULE Spec2Model ----
(***************************************************************************)
(* The receipt field extraction of the OCR receipt service (src/index.js): *)
(* parseReceiptText and its extractors, validateExtractedData,             *)
(* determineMedicalCategory and the review flags of the success response;  *)
(* the handler of POST /api/ocr/extract with processReceiptOCR, and the     *)
(* upload endpoint POST /ocr/extract.                                       *)
(***************************************************************************)
EXTENDS Integers, Sequences, FiniteSets, TLC

VARIABLES
  now,                \* the clock: hours since 1970-01-01T00:00Z
  tz,                 \* the time zone of the process: hours ahead of UTC
  text,               \* data.text of the OCR result
  overallConfidence,  \* data.confidence of the OCR result, in percent
  pc,                 \* where the request is in the handler
  extractedData,      \* the record parseReceiptText returned
  validationErrors,   \* what validateExtractedData returned
  response,           \* the response sent
  previous,           \* the arguments, clock and result of the call before
  requests,           \* the requests to POST /api/ocr/extract in flight
  workers,            \* the Tesseract workers created so far
  millis,             \* Date.now(): milliseconds
  upload              \* the request to POST /ocr/extract of the upload service

vars == <<now, tz, text, overallConfidence, pc, extractedData, validationErrors,
          response, previous, requests, workers, millis, upload>>

(***************************************************************************)
(* Characters and strings.  A JavaScript string is modelled as a sequence  *)
(* of one-character strings.                                               *)
(***************************************************************************)
DigitSeq == <<"0","1","2","3","4","5","6","7","8","9">>
UpperSeq == <<"A","B","C","D","E","F","G","H","I","J","K","L","M",
              "N","O","P","Q","R","S","T","U","V","W","X","Y","Z">>
LowerSeq == <<"a","b","c","d","e","f","g","h","i","j","k","l","m",
              "n","o","p","q","r","s","t","u","v","w","x","y","z">>
Range(f) == {f[i] : i \in DOMAIN f}
Digit == Range(DigitSeq)
UpperAZ == Range(UpperSeq)
LowerAZ == Range(LowerSeq)
Letter == UpperAZ \cup LowerAZ
\* \s
WhiteSpace == {" ", "\t", "\r", "\n"}

IndexOf(seq, c) == CHOOSE i \in DOMAIN seq : seq[i] = c
toLowerChar(c) == IF c \in UpperAZ THEN LowerSeq[IndexOf(UpperSeq, c)] ELSE c
toUpperChar(c) == IF c \in LowerAZ THEN UpperSeq[IndexOf(LowerSeq, c)] ELSE c
toLowerCase(s) == [i \in DOMAIN s |-> toLowerChar(s[i])]

(***************************************************************************)
(* Regular expressions.  A pattern is a sequence of atoms: a repeated      *)
(* character class, a literal word, an alternation of sub-patterns, or a   *)
(* zero-width mark (start or end of input, opening or closing of a capture *)
(* group).                                                                 *)
(* String.prototype.match backtracks: it takes, atom by atom, the first    *)
(* choice (longest first for a greedy repetition, shortest first for a     *)
(* lazy one, leftmost alternative first) from which the rest of the        *)
(* pattern can still match.  Feasible computes, for every atom, the        *)
(* positions from which the rest of the pattern matches; Path then walks   *)
(* the pattern taking each atom's first choice that stays feasible.        *)
(***************************************************************************)
Unbounded == -1
Atom(t, S, neg, lo, hi, greedy, k, xs) ==
  [t |-> t, s |-> S, neg |-> neg, min |-> lo, max |-> hi, greedy |-> greedy, k |-> k, xs |-> xs]
Mark(t, k) == <<Atom(t, {}, FALSE, 0, 0, TRUE, k, <<>>)>>
Cls(S) == <<Atom("rep", S, FALSE, 1, 1, TRUE, 0, <<>>)>>
Ch(c) == Cls({c})
\* . matches anything but a line terminator
AnyChar == <<Atom("rep", {"\n", "\r"}, TRUE, 1, 1, TRUE, 0, <<>>)>>
RECURSIVE Cat(_)
Cat(xs) == IF Len(xs) = 0 THEN <<>> ELSE Head(xs) \o Cat(Tail(xs))
Alt(xs) == <<Atom("alt", {}, FALSE, 0, 0, TRUE, 0, xs)>>
\* x{lo,hi} and x{lo,hi}? for a character class x
Rep(x, lo, hi) == <<[x[1] EXCEPT !.min = lo, !.max = hi, !.greedy = TRUE]>>
Lazy(x, lo, hi) == <<[x[1] EXCEPT !.min = lo, !.max = hi, !.greedy = FALSE]>>
Star(x) == Rep(x, 0, Unbounded)
Plus(x) == Rep(x, 1, Unbounded)
\* x? : for a character class a repetition, else x or, failing that, nothing
Opt(x) == IF Len(x) = 1 /\ x[1].t = "rep" THEN Rep(x, 0, 1) ELSE Alt(<<x, <<>>>>)
Grp(k, x) == Mark("open", k) \o x \o Mark("close", k)
Bol == Mark("bol", 0)
Eol == Mark("eol", 0)
Word(w) == <<Atom("lit", {}, FALSE, 0, 0, TRUE, 0, w)>>

MinOf(S) == CHOOSE n \in S : \A m \in S : n <= m
MaxOf(S) == CHOOSE n \in S : \A m \in S : n >= m

CharIn(c, a, ci) ==
  (c \in a.s \/ (ci /\ (toLowerChar(c) \in a.s \/ toUpperChar(c) \in a.s))) # a.neg

\* the most characters of s from position p that the class of atom a can take
RunCap(a, s, p) ==
  IF a.max = Unbounded \/ a.max > Len(s) - p + 1 THEN Len(s) - p + 1 ELSE a.max
RunLength(a, s, ci, p) ==
  MinOf({n \in 0..RunCap(a, s, p) : n = RunCap(a, s, p) \/ ~CharIn(s[p + n], a, ci)})
\* the positions a repetition can end at, in the order backtracking tries them
RepEnds(a, p, run) ==
  IF run < a.min THEN <<>>
  ELSE [i \in 1..(run - a.min + 1) |-> IF a.greedy THEN p + run - i + 1 ELSE p + a.min + i - 1]

\* the positions atom a can end at when it starts at p, in backtracking order
RECURSIVE AtomEnds(_, _, _, _)
RECURSIVE SeqEnds(_, _, _, _, _)
RECURSIVE EachEnds(_, _, _, _)
RECURSIVE AltEnds(_, _, _, _)
AtomEnds(a, s, ci, p) ==
  CASE a.t = "rep" -> RepEnds(a, p, RunLength(a, s, ci, p))
    [] a.t = "lit" ->
         IF /\ p + Len(a.xs) <= Len(s) + 1
            /\ \A i \in DOMAIN a.xs :
                 \/ s[p + i - 1] = a.xs[i]
                 \/ (ci /\ toLowerChar(s[p + i - 1]) = toLowerChar(a.xs[i]))
         THEN <<p + Len(a.xs)>> ELSE <<>>
    [] a.t = "bol" -> IF p = 1 THEN <<p>> ELSE <<>>
    [] a.t = "eol" -> IF p = Len(s) + 1 THEN <<p>> ELSE <<>>
    [] a.t = "alt" ->
         AltEnds(SelectSeq(a.xs, LAMBDA x : Len(SeqEnds(x, 1, s, ci, <<p>>)) > 0), s, ci, p)
    [] OTHER -> <<p>>
EachEnds(a, s, ci, ps) ==
  IF Len(ps) = 0 THEN <<>> ELSE AtomEnds(a, s, ci, Head(ps)) \o EachEnds(a, s, ci, Tail(ps))
SeqEnds(atoms, j, s, ci, ps) ==
  IF j > Len(atoms) \/ Len(ps) = 0 THEN ps
  ELSE SeqEnds(atoms, j + 1, s, ci, EachEnds(atoms[j], s, ci, ps))
\* the ends of the alternatives that match at p, leftmost alternative first
AltEnds(xs, s, ci, p) == Cat([i \in DOMAIN xs |-> SeqEnds(xs[i], 1, s, ci, <<p>>)])

\* reach[j] is the set of positions at which atom j of the pattern can start
RECURSIVE Reach(_, _, _, _)
Reach(re, s, ci, reach) ==
  IF Len(reach) > Len(re) THEN reach
  ELSE Reach(re, s, ci,
             Append(reach, UNION {Range(AtomEnds(re[Len(reach)], s, ci, p)) :
                                    p \in reach[Len(reach)]}))
\* ok[j] is the set of those positions from which atoms j.. of the pattern match
\* (ok holds the sets of the atoms after atom Len(re) - Len(ok) + 1)
RECURSIVE Feasible(_, _, _, _, _)
Feasible(re, s, ci, reach, ok) ==
  IF Len(ok) > Len(re) THEN ok
  ELSE Feasible(re, s, ci, reach,
                <<{p \in reach[Len(re) - Len(ok) + 1] :
                     \E e \in Range(AtomEnds(re[Len(re) - Len(ok) + 1], s, ci, p)) :
                        e \in ok[1]}>> \o ok)
\* the feasible sets of a pattern whose reach sets are known
Matching(re, s, ci, reach) == Feasible(re, s, ci, reach, <<reach[Len(re) + 1]>>)

FirstIn(ends, next) == ends[MinOf({i \in DOMAIN ends : ends[i] \in next})]
Capture(a, p, caps) ==
  CASE a.t = "open" -> [caps EXCEPT ![a.k] = <<p, p>>]
    [] a.t = "close" -> [caps EXCEPT ![a.k] = <<@[1], p>>]
    [] OTHER -> caps
\* at: the atom reached, where the match began, the position and the captures
RECURSIVE Path(_, _, _, _, _)
Path(re, s, ci, ok, at) ==
  IF at.j > Len(re) THEN [ok |-> TRUE, from |-> at.from, to |-> at.p, caps |-> at.caps]
  ELSE Path(re, s, ci, ok,
            [j |-> at.j + 1, from |-> at.from,
             p |-> FirstIn(AtomEnds(re[at.j], s, ci, at.p), ok[at.j + 1]),
             caps |-> Capture(re[at.j], at.p, at.caps)])

\* the match that starts leftmost
MatchFrom(re, s, ci, ok) ==
  IF ok[1] = {} THEN [ok |-> FALSE, from |-> 0, to |-> 0, caps |-> <<>>]
  ELSE Path(re, s, ci, ok,
            [j |-> 1, from |-> MinOf(ok[1]), p |-> MinOf(ok[1]), caps |-> <<<<0, 0>>, <<0, 0>>>>])
\* s.match(re) for a pattern without the g flag
match(s, re, ci) ==
  MatchFrom(re, s, ci, Matching(re, s, ci, Reach(re, s, ci, <<1..(Len(s) + 1)>>)))
\* match[k] of a successful match
Group(s, m, k) == SubSeq(s, m.caps[k][1], m.caps[k][2] - 1)


(***************************************************************************)
(* String methods.                                                         *)
(***************************************************************************)
trim(s) ==
  LET keep == {i \in DOMAIN s : s[i] \notin WhiteSpace}
  IN IF keep = {} THEN <<>> ELSE SubSeq(s, MinOf(keep), MaxOf(keep))

\* s.split(c): the pieces between the occurrences of c
pieces(s, at) == [k \in 1..(Len(at) - 1) |-> SubSeq(s, at[k] + 1, at[k + 1] - 1)]
split(s, c) ==
  pieces(s, <<0>> \o SelectSeq([i \in DOMAIN s |-> i], LAMBDA i : s[i] = c) \o <<Len(s) + 1>>)

RECURSIVE join(_, _)
join(parts, c) ==
  IF Len(parts) = 0 THEN <<>>
  ELSE IF Len(parts) = 1 THEN parts[1]
  ELSE parts[1] \o <<c>> \o join(Tail(parts), c)

includes(s, sub) ==
  \E i \in 1..(Len(s) - Len(sub) + 1) : SubSeq(s, i, i + Len(sub) - 1) = sub

\* s.replace(/[^...]/g, '') : only the characters of `allowed` stay
keepOnly(s, allowed) == SelectSeq(s, LAMBDA c : c \in allowed)

\* s.replace(/\s+/g, ' ')
\* (what stays of s, a space for the first character of a run of white space)
spaced(s, stay) == [k \in DOMAIN stay |-> IF s[stay[k]] \in WhiteSpace THEN " " ELSE s[stay[k]]]
collapseSpace(s) ==
  spaced(s, SelectSeq([i \in DOMAIN s |-> i],
                      LAMBDA i : s[i] \notin WhiteSpace \/ i = 1 \/ s[i - 1] \notin WhiteSpace))

(***************************************************************************)
(* Numbers.  A decimal amount is held in hundredths; NaN is NotANumber.    *)
(***************************************************************************)
NotANumber == 0 - 1

RECURSIVE DigitsValue(_)
DigitsValue(ds) ==
  IF Len(ds) = 0 THEN 0
  ELSE DigitsValue(SubSeq(ds, 1, Len(ds) - 1)) * 10 + IndexOf(DigitSeq, ds[Len(ds)]) - 1

RECURSIVE NumToStr(_)
NumToStr(n) ==
  IF n < 10 THEN <<DigitSeq[n + 1]>>
  ELSE NumToStr(n \div 10) \o <<DigitSeq[(n % 10) + 1]>>

\* the leading run of digits of s
LeadingDigits(s) ==
  LET stop == {i \in DOMAIN s : s[i] \notin Digit}
  IN IF stop = {} THEN s ELSE SubSeq(s, 1, MinOf(stop) - 1)

\* parseFloat(s), in hundredths, of an unsigned decimal numeral with at
\* most two fraction digits (all the numerals the patterns can capture)
parseFloat(s) ==
  LET int == LeadingDigits(s)
      after == SubSeq(s, Len(int) + 1, Len(s))
      frac == IF Len(after) > 0 /\ Head(after) = "." THEN LeadingDigits(Tail(after)) ELSE <<>>
      frac2 == SubSeq(frac \o <<"0", "0">>, 1, 2)
  IN IF Len(int) = 0 THEN NotANumber
     ELSE DigitsValue(int) * 100 + DigitsValue(frac2)
isNaN(n) == n = NotANumber

\* n.toFixed(2) of a non-negative amount held in hundredths
toFixed2(n) ==
  NumToStr(n \div 100) \o <<".">> \o <<DigitSeq[((n % 100) \div 10) + 1], DigitSeq[(n % 10) + 1]>>

\* a number as a decimal string of at least w digits (padStart with zeros)
RECURSIVE Pad(_, _)
Pad(n, w) == LET s == NumToStr(n) IN IF Len(s) >= w THEN s ELSE <<"0">> \o Pad(n, w - 1)

(***************************************************************************)
(* Dates.  A Date object is [valid, t]: t is its time value in hours since *)
(* 1970-01-01T00:00Z; an Invalid Date has valid = FALSE.  The local time   *)
(* zone is tz hours ahead of UTC.                                          *)
(***************************************************************************)
InvalidDate == [valid |-> FALSE, t |-> 0]

\* day number of a civil date (month 1..12) since 1970-01-01
DaysFromCivil(y, m, d) ==
  LET yy == IF m <= 2 THEN y - 1 ELSE y
      mp == IF m > 2 THEN m - 3 ELSE m + 9
      yoe == yy - (yy \div 400) * 400
  IN (yy \div 400) * 146097
     + yoe * 365 + yoe \div 4 - yoe \div 100 + (153 * mp + 2) \div 5 + d - 1 - 719468

\* civil date <<year, month 1..12, day>> of a day number
CivilFromDays(z) ==
  LET zz == z + 719468
      era == zz \div 146097
      doe == zz - era * 146097
      yoe == (doe - doe \div 1460 + doe \div 36524 - doe \div 146096) \div 365
      doy == doe - (365 * yoe + yoe \div 4 - yoe \div 100)
      mp == (5 * doy + 2) \div 153
      y == yoe + era * 400
  IN <<IF mp < 10 THEN y ELSE y + 1, IF mp < 10 THEN mp + 3 ELSE mp - 9,
       doy - (153 * mp + 2) \div 5 + 1>>

\* MakeDay(year, month index, date): months and days out of range carry over
MakeDay(year, monthIndex, date) ==
  DaysFromCivil(year + monthIndex \div 12, (monthIndex % 12) + 1, 1) + date - 1

\* new Date(year, monthIndex, day): local midnight; years 0..99 mean 1900..1999
NewDateLocal(year, monthIndex, day) ==
  LET y == IF year >= 0 /\ year <= 99 THEN 1900 + year ELSE year
  IN [valid |-> TRUE, t |-> MakeDay(y, monthIndex, day) * 24 - tz]

\* new Date(): the clock
NewDateNow == [valid |-> TRUE, t |-> now]

\* getFullYear / getMonth / getDate of a valid date, in local time
LocalCivil(date) == CivilFromDays((date.t + tz) \div 24)

\* date.toISOString().split('T')[0] of a valid date: its UTC calendar day
toISODate(date) ==
  LET c == CivilFromDays(date.t \div 24)
  IN Pad(c[1], 4) \o <<"-">> \o Pad(c[2], 2) \o <<"-">> \o Pad(c[3], 2)

D == Cls(Digit)
Sp == Cls(WhiteSpace)
monthNames == <<<<"J","A","N">>, <<"F","E","B">>, <<"M","A","R">>, <<"A","P","R">>, <<"M","A","Y">>, <<"J","U","N">>,
                <<"J","U","L">>, <<"A","U","G">>, <<"S","E","P">>, <<"O","C","T">>, <<"N","O","V">>, <<"D","E","C">>>>
MonthAlt == Alt([i \in DOMAIN monthNames |-> Word(monthNames[i])])

isoDateRe == Cat(<<Bol, Grp(1, Rep(D, 4, 4)), Ch("-"), Grp(2, Rep(D, 2, 2)), Ch("-"),
                   Rep(D, 2, 2), Eol>>)
looseYmdRe == Cat(<<Bol, Grp(1, Rep(D, 4, 4)), Ch("-"), Grp(2, Rep(D, 1, 2)), Ch("-"),
                    Rep(D, 1, 2), Eol>>)
monthFirstRe == Cat(<<Bol, Grp(1, MonthAlt), Star(Cls(UpperAZ)), Opt(Ch(".")), Plus(Sp),
                      Grp(2, Rep(D, 1, 2)), Opt(Ch(",")), Plus(Sp), Rep(D, 4, 4), Eol>>)
dayFirstRe == Cat(<<Bol, Grp(2, Rep(D, 1, 2)), Plus(Sp), Grp(1, MonthAlt), Star(Cls(UpperAZ)),
                    Opt(Ch(".")), Plus(Sp), Rep(D, 4, 4), Eol>>)

MonthOfName(w) == CHOOSE i \in DOMAIN monthNames : monthNames[i] = [k \in DOMAIN w |-> toUpperChar(w[k])]

\* a parsed calendar date as a Date: a month outside 1..12 or a day outside
\* 1..31 gives an Invalid Date, a day past the end of its month carries over
DateOfParts(y, m, d, utc) ==
  IF m >= 1 /\ m <= 12 /\ d >= 1 /\ d <= 31
  THEN (IF utc THEN [valid |-> TRUE, t |-> MakeDay(y, m - 1, d) * 24]
        ELSE NewDateLocal(y, m - 1, d))
  ELSE InvalidDate
ParseYmd(s, m, utc) ==
  DateOfParts(DigitsValue(Group(s, m, 1)), DigitsValue(Group(s, m, 2)),
              DigitsValue(SubSeq(s, m.caps[2][2] + 1, Len(s))), utc)
ParseNamed(s, m) ==
  DateOfParts(DigitsValue(SubSeq(s, Len(s) - 3, Len(s))), MonthOfName(Group(s, m, 1)), DigitsValue(Group(s, m, 2)), FALSE)
ParseDayFirst(s, m) == IF m.ok THEN ParseNamed(s, m) ELSE InvalidDate
ParseMonthFirst(s, m) ==
  IF m.ok THEN ParseNamed(s, m) ELSE ParseDayFirst(s, match(s, dayFirstRe, TRUE))
ParseLoose(s, m) ==
  IF m.ok THEN ParseYmd(s, m, FALSE) ELSE ParseMonthFirst(s, match(s, monthFirstRe, TRUE))
ParseIso(s, m) ==
  IF m.ok THEN ParseYmd(s, m, TRUE) ELSE ParseLoose(s, match(s, looseYmdRe, FALSE))

\* new Date(string) as Node's date parser reads the strings the date
\* patterns can capture: the ISO form YYYY-MM-DD is UTC, every other form
\* (Y-M-D with a one-digit part, month name first, day first) is local time
NewDateParse(s) == ParseIso(s, match(s, isoDateRe, FALSE))

\* /^\d{1,2}\/\d{1,2}\/\d{4}$/ and /^\d{1,2}-\d{1,2}-\d{4}$/
mdyRe(sep) == Cat(<<Bol, Rep(D, 1, 2), Ch(sep), Rep(D, 1, 2), Ch(sep), Rep(D, 4, 4), Eol>>)

\* null
Null == <<"null">>

\* new Date(year, month - 1, day) of [month, day, year] = dateStr.split(sep)
DateOfMdy(p) == NewDateLocal(DigitsValue(p[3]), DigitsValue(p[1]) - 1, DigitsValue(p[2]))

\* new Date(now.getFullYear() - 2, now.getMonth(), now.getDate())
TwoYearsBefore(c) == NewDateLocal(c[1] - 2, c[2] - 1, c[3])

\* a date outside the window moved to the nearer end of the window
FormatClamped(date, twoYearsAgo, nowDate) ==
  IF ~date.valid THEN Null
  ELSE IF date.t < twoYearsAgo.t THEN toISODate(twoYearsAgo)
  ELSE IF date.t > nowDate.t THEN toISODate(nowDate)
  ELSE toISODate(date)
\* date >= twoYearsAgo && date <= now ? date.toISOString().split('T')[0] : null
FormatIfRecent(date, twoYearsAgo, nowDate) ==
  IF date.valid /\ date.t >= twoYearsAgo.t /\ date.t <= nowDate.t THEN toISODate(date) ELSE Null

\* the Date the branches of parseAndFormatDate build from the matched text
dateOfString(dateStr) ==
  IF match(dateStr, looseYmdRe, FALSE).ok THEN NewDateParse(dateStr)
  ELSE IF match(dateStr, mdyRe("/"), FALSE).ok THEN DateOfMdy(split(dateStr, "/"))
  ELSE IF match(dateStr, mdyRe("-"), FALSE).ok THEN DateOfMdy(split(dateStr, "-"))
  ELSE NewDateParse(dateStr)

parseAndFormatDate(dateStr) ==
  FormatIfRecent(dateOfString(dateStr), TwoYearsBefore(LocalCivil(NewDateNow)), NewDateNow)

(***************************************************************************)
(* Confidence scores.  A score is held in units of 0.0001.  Where the      *)
(* IEEE-754 double the program computes differs from the decimal written   *)
(* here, the score is one unit above or below it, so that the order of     *)
(* any two scores is the order of the doubles.                             *)
(***************************************************************************)
\* a + b in double arithmetic, for the sums extractAmount forms
FloatAdd(a, b) ==
  a + b + (CASE <<a, b>> = <<6500, 2000>> -> 1
             [] <<a, b>> = <<7000, 1000>> -> 0 - 1
             [] <<a, b>> = <<7000, 2000>> -> 0 - 1
             [] <<a, b>> = <<8000, 1500>> -> 1
             [] <<a, b>> = <<9501, 1000>> -> 0 - 1
             [] <<a, b>> = <<10500, 1000>> -> 1
             [] <<a, b>> = <<11500, 2000>> -> 0 - 1
             [] <<a, b>> = <<13499, 1000>> -> 1
             [] OTHER -> 0)

MinNum(a, b) == IF a < b THEN a ELSE b
MaxNum(a, b) == IF a > b THEN a ELSE b

(***************************************************************************)
(* Text cleaners.                                                          *)
(***************************************************************************)
\* word.charAt(0).toUpperCase() + word.slice(1)
capitalizeAll(words) ==
  [i \in DOMAIN words |->
     IF Len(words[i]) = 0 THEN words[i] ELSE <<toUpperChar(words[i][1])>> \o Tail(words[i])]
cleanStoreName(name) ==
  join(capitalizeAll(split(toLowerCase(trim(collapseSpace(
         keepOnly(name, Letter \cup Digit \cup WhiteSpace \cup {"&", "-", "."})))), " ")), " ")

cleanItemDescription(description) ==
  trim(collapseSpace(keepOnly(description, Letter \cup Digit \cup WhiteSpace \cup {"-"})))

(***************************************************************************)
(* Store name.                                                             *)
(***************************************************************************)
UpperOrSpace == Cls(UpperAZ \cup WhiteSpace)
storePatterns == <<
  \* /^(CVS|WALGREENS|WALMART|TARGET|COSTCO|RITE\s*AID|PHARMACY)/i
  Cat(<<Bol, Grp(1, Alt(<<Word(<<"C","V","S">>), Word(<<"W","A","L","G","R","E","E","N","S">>), Word(<<"W","A","L","M","A","R","T">>), Word(<<"T","A","R","G","E","T">>),
                          Word(<<"C","O","S","T","C","O">>), Cat(<<Word(<<"R","I","T","E">>), Star(Sp), Word(<<"A","I","D">>)>>),
                          Word(<<"P","H","A","R","M","A","C","Y">>)>>))>>),
  \* /^([A-Z][A-Z\s]{3,25})\s*(PHARMACY|STORE|MARKET|CLINIC)/i
  Cat(<<Bol, Grp(1, Cat(<<Cls(UpperAZ), Rep(UpperOrSpace, 3, 25)>>)), Star(Sp),
        Grp(2, Alt(<<Word(<<"P","H","A","R","M","A","C","Y">>), Word(<<"S","T","O","R","E">>), Word(<<"M","A","R","K","E","T">>), Word(<<"C","L","I","N","I","C">>)>>))>>),
  \* /^(DR\.?\s+[A-Z][A-Z\s]{3,25})/i
  Cat(<<Bol, Grp(1, Cat(<<Word(<<"D","R">>), Opt(Ch(".")), Plus(Sp), Cls(UpperAZ),
                          Rep(UpperOrSpace, 3, 25)>>))>>),
  \* /^([A-Z&][A-Z\s&]{4,30})\s*$/i
  Cat(<<Bol, Grp(1, Cat(<<Cls(UpperAZ \cup {"&"}),
                          Rep(Cls(UpperAZ \cup WhiteSpace \cup {"&"}), 4, 30)>>)),
        Star(Sp), Eol>>) >>

\* 0.7 + (0.3 * (5 - i) / 5) for line index i
storeConfidence(i) == 7000 + (3000 * (5 - i)) \div 5 - (IF i = 2 THEN 1 ELSE 0)

NotFound == [value |-> <<>>, confidence |-> 0]
\* an inner loop that ran through all its patterns without returning
Nothing == [value |-> Null, confidence |-> 0]

\* lines.find(line => line.length > 3 && line.length < 50 && /[A-Za-z]/.test(line))
storeFallback(lines) ==
  LET good == {k \in DOMAIN lines : /\ Len(lines[k]) > 3
                                    /\ Len(lines[k]) < 50
                                    /\ \E j \in DOMAIN lines[k] : lines[k][j] \in Letter}
  IN IF good = {} THEN NotFound
     ELSE [value |-> cleanStoreName(lines[MinOf(good)]), confidence |-> 3000]

\* match[1] || match[0]
storeNameOf(line, m) == IF Len(Group(line, m, 1)) > 0 THEN Group(line, m, 1) ELSE SubSeq(line, m.from, m.to - 1)

\* the inner loop on the line at index i, from pattern p: the name returned, or null
RECURSIVE storeOnLine(_, _, _)
storeTry(line, i, p, m) ==
  IF m.ok
  THEN [value |-> cleanStoreName(storeNameOf(line, m)), confidence |-> storeConfidence(i)]
  ELSE storeOnLine(line, i, p + 1)
storeOnLine(line, i, p) ==
  IF p > Len(storePatterns) THEN Nothing
  ELSE storeTry(line, i, p, match(line, storePatterns[p], TRUE))
\* the outer loop from line index i
RECURSIVE storeLoop(_, _)
storeNext(lines, i, found) == IF found.value # Null THEN found ELSE storeLoop(lines, i + 1)
storeLoop(lines, i) ==
  IF i >= MinNum(5, Len(lines)) THEN storeFallback(lines)
  ELSE storeNext(lines, i, storeOnLine(trim(lines[i + 1]), i, 1))

\* the loops nested the other way round: every line under the first pattern,
\* then every line under the second, and so on
storeOn(lines, i, p) == match(trim(lines[i + 1]), storePatterns[p], TRUE)
storeVisits(lines) ==
  [k \in 1..(Len(storePatterns) * MinNum(5, Len(lines))) |->
     [p |-> ((k - 1) \div MinNum(5, Len(lines))) + 1, i |-> (k - 1) % MinNum(5, Len(lines))]]
storeFirstHit(lines, hits) ==
  IF Len(hits) = 0 THEN storeFallback(lines)
  ELSE [value |-> cleanStoreName(storeNameOf(trim(lines[hits[1].i + 1]),
                                             storeOn(lines, hits[1].i, hits[1].p))),
        confidence |-> storeConfidence(hits[1].i)]
storePatternFirst(lines) ==
  storeFirstHit(lines, SelectSeq(storeVisits(lines), LAMBDA v : storeOn(lines, v.i, v.p).ok))
extractStoreName(lines) == storeLoop(lines, 0)

(***************************************************************************)
(* Amount.                                                                 *)
(***************************************************************************)
AmountWord == Alt(<<Word(<<"T","O","T","A","L">>), Word(<<"A","M","O","U","N","T">>), Word(<<"B","A","L","A","N","C","E">>)>>)
Money == Cat(<<Plus(D), Ch("."), Rep(D, 2, 2)>>)
amountPatterns == <<
  \* /(?:TOTAL|AMOUNT|BALANCE)[:\s]*\$?(\d+\.?\d{0,2})/i
  [re |-> Cat(<<AmountWord, Star(Cls(WhiteSpace \cup {":"})), Opt(Ch("$")),
                Grp(1, Cat(<<Plus(D), Opt(Ch(".")), Rep(D, 0, 2)>>))>>), ci |-> TRUE],
  \* /^\s*\$?(\d+\.\d{2})\s*$/
  [re |-> Cat(<<Bol, Star(Sp), Opt(Ch("$")), Grp(1, Money), Star(Sp), Eol>>), ci |-> FALSE],
  \* /\$(\d+\.\d{2})\s*(?:TOTAL|AMOUNT|BALANCE)?/i
  [re |-> Cat(<<Ch("$"), Grp(1, Money), Star(Sp), Opt(AmountWord)>>), ci |-> TRUE],
  \* /(\d+\.\d{2})\s*(?:TOTAL|AMOUNT|BALANCE)/i
  [re |-> Cat(<<Grp(1, Money), Star(Sp), AmountWord>>), ci |-> TRUE] >>

\* the score of a match of `numeral` on the line at index `index`
\* if (cond) confidence += bonus
Bonus(confidence, cond, bonus) == IF cond THEN FloatAdd(confidence, bonus) ELSE confidence
amountScore(lines, index, numeral) ==
  Bonus(Bonus(Bonus(Bonus(Bonus(5000,
    includes(toLowerCase(lines[index + 1]), <<"t","o","t","a","l">>), 3000),
    includes(toLowerCase(lines[index + 1]), <<"a","m","o","u","n","t">>), 2000),
    includes(toLowerCase(lines[index + 1]), <<"b","a","l","a","n","c","e">>), 1500),
    \* index > lines.length * 0.6
    10 * index > 6 * Len(lines), 2000),
    includes(numeral, <<".">>), 1000)

\* the body of the inner forEach: bestMatch after pattern p on line index
\* without the ceiling on the amount
amountKeepAny(amount, confidence, bestMatch) ==
  IF amount > 0 /\ confidence > bestMatch.confidence
  THEN [value |-> toFixed2(amount), confidence |-> MinNum(confidence, 9500)]
  ELSE bestMatch
amountKeep(amount, confidence, bestMatch) ==
  IF amount > 0 /\ amount < 1000000 /\ confidence > bestMatch.confidence
  THEN [value |-> toFixed2(amount), confidence |-> MinNum(confidence, 9500)]
  ELSE bestMatch
amountMatched(lines, index, m, bestMatch) ==
  IF m.ok
  THEN amountKeep(parseFloat(Group(lines[index + 1], m, 1)),
                  amountScore(lines, index, Group(lines[index + 1], m, 1)), bestMatch)
  ELSE bestMatch
amountMatch(lines, index, p) ==
  match(lines[index + 1], amountPatterns[p].re, amountPatterns[p].ci)

\* the (line index, pattern) pairs in the order the two forEach loops visit them
amountVisits(lines) ==
  [k \in 1..(Len(lines) * Len(amountPatterns)) |->
     [index |-> (k - 1) \div Len(amountPatterns), p |-> ((k - 1) % Len(amountPatterns)) + 1]]
\* the visits whose pattern matches: the others leave bestMatch as it is
amountHits(lines) ==
  SelectSeq(amountVisits(lines), LAMBDA v : amountMatch(lines, v.index, v.p).ok)
\* at: the visit reached and bestMatch before it
RECURSIVE amountLoop(_, _, _)
amountLoop(lines, hits, at) ==
  IF at.k > Len(hits) THEN at.bestMatch
  ELSE amountLoop(lines, hits,
                  [k |-> at.k + 1,
                   bestMatch |->
                     amountMatched(lines, hits[at.k].index,
                                   amountMatch(lines, hits[at.k].index, hits[at.k].p),
                                   at.bestMatch)])

extractAmount(lines) == amountLoop(lines, amountHits(lines), [k |-> 1, bestMatch |-> NotFound])

(***************************************************************************)
(* Date.                                                                   *)
(***************************************************************************)
datePatterns == <<
  \* /(\d{1,2}\/\d{1,2}\/\d{4})/
  [re |-> Grp(1, Cat(<<Rep(D, 1, 2), Ch("/"), Rep(D, 1, 2), Ch("/"), Rep(D, 4, 4)>>)), ci |-> FALSE],
  \* /(\d{1,2}-\d{1,2}-\d{4})/
  [re |-> Grp(1, Cat(<<Rep(D, 1, 2), Ch("-"), Rep(D, 1, 2), Ch("-"), Rep(D, 4, 4)>>)), ci |-> FALSE],
  \* /(\d{4}-\d{1,2}-\d{1,2})/
  [re |-> Grp(1, Cat(<<Rep(D, 4, 4), Ch("-"), Rep(D, 1, 2), Ch("-"), Rep(D, 1, 2)>>)), ci |-> FALSE],
  \* /((?:JAN|...|DEC)[A-Z]*\.?\s+\d{1,2},?\s+\d{4})/i
  [re |-> Grp(1, Cat(<<MonthAlt, Star(Cls(UpperAZ)), Opt(Ch(".")), Plus(Sp), Rep(D, 1, 2),
                       Opt(Ch(",")), Plus(Sp), Rep(D, 4, 4)>>)), ci |-> TRUE],
  \* /(\d{1,2}\s+(?:JAN|...|DEC)[A-Z]*\.?\s+\d{4})/i
  [re |-> Grp(1, Cat(<<Rep(D, 1, 2), Plus(Sp), MonthAlt, Star(Cls(UpperAZ)), Opt(Ch(".")),
                       Plus(Sp), Rep(D, 4, 4)>>)), ci |-> TRUE] >>

\* 0.8 - (i * 0.03) for line index i
dateConfidence(i) == 8000 - 300 * i + (IF i \in {3, 6, 7} THEN 1 ELSE 0)

\* the date a pattern finds on a line, or null
dateMatched(line, m) == IF m.ok THEN parseAndFormatDate(Group(line, m, 1)) ELSE Null
dateOf(line, p) == dateMatched(line, match(line, datePatterns[p].re, datePatterns[p].ci))

\* the inner loop on the line at index i, from pattern p: the date returned, or null
RECURSIVE dateOnLine(_, _, _)
dateTry(line, i, p, parsedDate) ==
  IF parsedDate # Null
  THEN [value |-> parsedDate, confidence |-> dateConfidence(i)]
  ELSE dateOnLine(line, i, p + 1)
dateOnLine(line, i, p) ==
  IF p > Len(datePatterns) THEN Nothing ELSE dateTry(line, i, p, dateOf(line, p))
\* no date at all when none is found
dateFallbackNone == NotFound
\* value: new Date().toISOString().split('T')[0], confidence: 0.1
dateFallback == [value |-> toISODate(NewDateNow), confidence |-> 1000]
\* the outer loop from line index i
RECURSIVE dateLoop(_, _)
dateNext(lines, i, found) == IF found.value # Null THEN found ELSE dateLoop(lines, i + 1)
dateLoop(lines, i) ==
  IF i >= MinNum(10, Len(lines)) THEN dateFallback
  ELSE dateNext(lines, i, dateOnLine(lines[i + 1], i, 1))

extractDate(lines) == dateLoop(lines, 0)

(***************************************************************************)
(* Line items.                                                             *)
(***************************************************************************)
itemPatterns == <<
  \* /^(.+?)\s+\$?(\d+\.?\d{0,2})$/
  Cat(<<Bol, Grp(1, Lazy(AnyChar, 1, Unbounded)), Plus(Sp), Opt(Ch("$")),
        Grp(2, Cat(<<Plus(D), Opt(Ch(".")), Rep(D, 0, 2)>>)), Eol>>),
  \* /^(.+?)\s+(\d+\.\d{2})$/
  Cat(<<Bol, Grp(1, Lazy(AnyChar, 1, Unbounded)), Plus(Sp), Grp(2, Money), Eol>>),
  \* /^(.+)\s+\$(\d+\.\d{2})$/
  Cat(<<Bol, Grp(1, Plus(AnyChar)), Plus(Sp), Ch("$"), Grp(2, Money), Eol>>) >>

excludeWords == <<<<"t","o","t","a","l">>, <<"s","u","b","t","o","t","a","l">>, <<"t","a","x">>, <<"a","m","o","u","n","t">>, <<"b","a","l","a","n","c","e">>, <<"c","h","a","n","g","e">>, <<"c","a","s","h">>,
                  <<"c","a","r","d">>, <<"v","i","s","a">>, <<"m","a","s","t","e","r","c","a","r","d">>, <<"d","e","b","i","t">>, <<"c","r","e","d","i","t">>, <<"t","h","a","n","k">>, <<"r","e","c","e","i","p","t">>,
                  <<"s","t","o","r","e">>, <<"p","h","a","r","m","a","c","y">>, <<"d","a","t","e">>, <<"t","i","m","e">>>>
\* /^(total|subtotal|...|time)/i
excludePatterns == Cat(<<Bol, Alt([i \in DOMAIN excludeWords |-> Word(excludeWords[i])])>>)

\* the item the patterns from p on find on a line: <<item>>, or <<>> if none
RECURSIVE itemOf(_, _)
itemTry(line, p, m) ==
  IF /\ m.ok
     /\ Len(trim(Group(line, m, 1))) > 2
     /\ parseFloat(Group(line, m, 2)) > 0
     /\ parseFloat(Group(line, m, 2)) < 100000
  THEN <<[description |-> cleanItemDescription(trim(Group(line, m, 1))),
          price |-> toFixed2(parseFloat(Group(line, m, 2)))]>>
  ELSE itemOf(line, p + 1)
itemOf(line, p) ==
  IF p > Len(itemPatterns) THEN <<>> ELSE itemTry(line, p, match(line, itemPatterns[p], FALSE))

\* the forEach body without its test of the keywords and of the length
itemOnLineUnchecked(line) == itemOf(line, 1)
\* what the forEach body pushes for one line: <<item>>, or <<>>
itemOnLine(line) ==
  IF match(line, excludePatterns, TRUE).ok \/ Len(line) < 3 \/ Len(line) > 60
  THEN <<>> ELSE itemOf(line, 1)
firsts(each) == [k \in DOMAIN each |-> each[k][1]]
\* lineItems.slice(0, 15)
slice15(lineItems) == SubSeq(lineItems, 1, MinNum(15, Len(lineItems)))
extractLineItems(lines) ==
  slice15(firsts(SelectSeq([k \in DOMAIN lines |-> itemOnLine(lines[k])],
                           LAMBDA items : Len(items) > 0)))

(***************************************************************************)
(* parseReceiptText.                                                       *)
(***************************************************************************)
\* text.split('\n').map(line => line.trim()).filter(line => line.length > 0)
trimAll(raw) == [i \in DOMAIN raw |-> trim(raw[i])]
normalizeLines(txt) == SelectSeq(trimAll(split(txt, "\n")), LAMBDA line : Len(line) > 0)

\* the record with the confidence of the amount left at its initial 0
assembleUnscored(storeName, amount, date, lineItems, overall) ==
  [store_name |-> IF Len(storeName.value) > 0 THEN storeName.value ELSE <<>>,
   amount |-> IF Len(amount.value) > 0 THEN amount.value ELSE <<>>,
   date |-> IF Len(date.value) > 0 THEN date.value ELSE <<>>,
   line_items |-> lineItems,
   confidence_scores |->
     [store_name |-> IF Len(storeName.value) > 0 THEN storeName.confidence ELSE 0,
      amount |-> 0,
      date |-> IF Len(date.value) > 0 THEN date.confidence ELSE 0,
      overall |-> overall]]
\* the record built from the extractors' results: a field is set, with its
\* confidence, only if its value is non-empty
assemble(storeName, amount, date, lineItems, overall) ==
  [store_name |-> IF Len(storeName.value) > 0 THEN storeName.value ELSE <<>>,
   amount |-> IF Len(amount.value) > 0 THEN amount.value ELSE <<>>,
   date |-> IF Len(date.value) > 0 THEN date.value ELSE <<>>,
   line_items |-> lineItems,
   confidence_scores |->
     [store_name |-> IF Len(storeName.value) > 0 THEN storeName.confidence ELSE 0,
      amount |-> IF Len(amount.value) > 0 THEN amount.confidence ELSE 0,
      date |-> IF Len(date.value) > 0 THEN date.confidence ELSE 0,
      overall |-> overall]]

\* overall: Math.max(0, Math.min(1, overallConfidence / 100)), overallConfidence in percent
extractAll(lines, conf) ==
  assemble(extractStoreName(lines), extractAmount(lines), extractDate(lines),
           extractLineItems(lines), MaxNum(0, MinNum(10000, conf * 100)))

parseReceiptText(txt, conf) == extractAll(normalizeLines(txt), conf)

(***************************************************************************)
(* Validation.                                                             *)
(***************************************************************************)
isValidDate(dateString) ==
  NewDateParse(dateString).valid /\ match(dateString, isoDateRe, FALSE).ok

StoreNameError == "Store name is required and must be at least 2 characters"
AmountError == "Amount must be a valid positive number"
DateError == "Date must be in valid format (YYYY-MM-DD)"
ConfidenceError == "OCR confidence too low for reliable extraction"

\* with the confidence floor at 0.5
validateFloorHalf(data) ==
  (IF Len(data.store_name) = 0 \/ Len(trim(data.store_name)) < 2
   THEN <<StoreNameError>> ELSE <<>>)
  \o (IF Len(data.amount) = 0 \/ isNaN(parseFloat(data.amount)) \/ parseFloat(data.amount) <= 0
      THEN <<AmountError>> ELSE <<>>)
  \o (IF Len(data.date) = 0 \/ ~isValidDate(data.date) THEN <<DateError>> ELSE <<>>)
  \o (IF data.confidence_scores.overall < 5000 THEN <<ConfidenceError>> ELSE <<>>)
validateExtractedData(data) ==
  (IF Len(data.store_name) = 0 \/ Len(trim(data.store_name)) < 2
   THEN <<StoreNameError>> ELSE <<>>)
  \o (IF Len(data.amount) = 0 \/ isNaN(parseFloat(data.amount)) \/ parseFloat(data.amount) <= 0
      THEN <<AmountError>> ELSE <<>>)
  \o (IF Len(data.date) = 0 \/ ~isValidDate(data.date) THEN <<DateError>> ELSE <<>>)
  \o (IF data.confidence_scores.overall < 2000 THEN <<ConfidenceError>> ELSE <<>>)

(***************************************************************************)
(* Category and review flags.                                              *)
(***************************************************************************)
\* lineItems.map(item => item.description.toLowerCase()).join(' ')
itemTextOf(lineItems) ==
  join([i \in DOMAIN lineItems |-> toLowerCase(lineItems[i].description)], " ")

\* the clinic rule ahead of the pharmacy rule
categoryClinicFirst(storeNameLower, itemText) ==
     IF \/ includes(storeNameLower, <<"d","r",".">>) \/ includes(storeNameLower, <<"d","o","c","t","o","r">>)
        \/ includes(storeNameLower, <<"c","l","i","n","i","c">>) \/ includes(storeNameLower, <<"m","e","d","i","c","a","l">>)
     THEN "Doctor Visit"
     ELSE IF \/ includes(storeNameLower, <<"p","h","a","r","m","a","c","y">>) \/ includes(storeNameLower, <<"c","v","s">>)
             \/ includes(storeNameLower, <<"w","a","l","g","r","e","e","n","s">>) \/ includes(storeNameLower, <<"r","i","t","e"," ","a","i","d">>)
     THEN "Pharmacy"
     ELSE IF \/ includes(storeNameLower, <<"d","e","n","t","a","l">>) \/ includes(storeNameLower, <<"o","r","t","h","o","d","o","n","t">>)
             \/ includes(itemText, <<"d","e","n","t","a","l">>) \/ includes(itemText, <<"t","o","o","t","h">>)
     THEN "Dental"
     ELSE IF \/ includes(storeNameLower, <<"v","i","s","i","o","n">>) \/ includes(storeNameLower, <<"e","y","e">>)
             \/ includes(storeNameLower, <<"o","p","t","i","c","a","l">>) \/ includes(itemText, <<"g","l","a","s","s","e","s">>)
             \/ includes(itemText, <<"c","o","n","t","a","c","t">>)
     THEN "Vision"
     ELSE IF \/ includes(itemText, <<"t","h","e","r","m","o","m","e","t","e","r">>) \/ includes(itemText, <<"b","a","n","d","a","g","e">>)
             \/ includes(itemText, <<"m","e","d","i","c","a","l"," ","d","e","v","i","c","e">>) \/ includes(itemText, <<"m","o","n","i","t","o","r">>)
     THEN "Medical Device"
     ELSE "Other"
categoryOf(storeNameLower, itemText) ==
     IF \/ includes(storeNameLower, <<"p","h","a","r","m","a","c","y">>) \/ includes(storeNameLower, <<"c","v","s">>)
        \/ includes(storeNameLower, <<"w","a","l","g","r","e","e","n","s">>) \/ includes(storeNameLower, <<"r","i","t","e"," ","a","i","d">>)
     THEN "Pharmacy"
     ELSE IF \/ includes(storeNameLower, <<"d","e","n","t","a","l">>) \/ includes(storeNameLower, <<"o","r","t","h","o","d","o","n","t">>)
             \/ includes(itemText, <<"d","e","n","t","a","l">>) \/ includes(itemText, <<"t","o","o","t","h">>)
     THEN "Dental"
     ELSE IF \/ includes(storeNameLower, <<"v","i","s","i","o","n">>) \/ includes(storeNameLower, <<"e","y","e">>)
             \/ includes(storeNameLower, <<"o","p","t","i","c","a","l">>) \/ includes(itemText, <<"g","l","a","s","s","e","s">>)
             \/ includes(itemText, <<"c","o","n","t","a","c","t">>)
     THEN "Vision"
     ELSE IF \/ includes(storeNameLower, <<"d","r",".">>) \/ includes(storeNameLower, <<"d","o","c","t","o","r">>)
             \/ includes(storeNameLower, <<"c","l","i","n","i","c">>) \/ includes(storeNameLower, <<"m","e","d","i","c","a","l">>)
     THEN "Doctor Visit"
     ELSE IF \/ includes(itemText, <<"t","h","e","r","m","o","m","e","t","e","r">>) \/ includes(itemText, <<"b","a","n","d","a","g","e">>)
             \/ includes(itemText, <<"m","e","d","i","c","a","l"," ","d","e","v","i","c","e">>) \/ includes(itemText, <<"m","o","n","i","t","o","r">>)
     THEN "Medical Device"
     ELSE "Other"

determineMedicalCategory(storeName, lineItems) ==
  categoryOf(toLowerCase(storeName), itemTextOf(lineItems))

getFieldsToVerify(confidenceScores) ==
  LET threshold == 7000
  IN (IF confidenceScores.store_name < threshold THEN <<"store_name">> ELSE <<>>)
     \o (IF confidenceScores.amount < threshold THEN <<"amount">> ELSE <<>>)
     \o (IF confidenceScores.date < threshold THEN <<"date">> ELSE <<>>)

(***************************************************************************)
(* The handler: the OCR result (text, confidence) is parsed, validated and *)
(* answered with 422 or 200.                                               *)
(***************************************************************************)
NoData ==
  [store_name |-> <<>>, amount |-> <<>>, date |-> <<>>, line_items |-> <<>>,
   confidence_scores |-> [store_name |-> 0, amount |-> 0, date |-> 0, overall |-> 0]]
NoResponse ==
  [status |-> 0, amount |-> 0, suggested_category |-> "", review_required |-> FALSE,
   fields_to_verify |-> <<>>]

\* one record shared by all requests: a field for which nothing is found keeps
\* the value the request before left in it
keepFound(last, fresh) ==
  [fresh EXCEPT !.store_name = IF Len(@) = 0 THEN last.store_name ELSE @,
                !.amount = IF Len(@) = 0 THEN last.amount ELSE @,
                !.confidence_scores.store_name =
                   IF Len(fresh.store_name) = 0 THEN last.confidence_scores.store_name ELSE @,
                !.confidence_scores.amount =
                   IF Len(fresh.amount) = 0 THEN last.confidence_scores.amount ELSE @]
lastResult == IF Len(previous) = 0 THEN NoData ELSE previous[Len(previous)].result
ParseReceiptShared ==
  /\ pc = "recognized"
  /\ extractedData' = keepFound(lastResult, parseReceiptText(text, overallConfidence))
  /\ previous' = Append(previous, [text |-> text, confidence |-> overallConfidence,
                                   at |-> now, result |-> extractedData'])
  /\ pc' = "parsed"
  /\ UNCHANGED <<now, tz, text, overallConfidence, validationErrors, response>>
  /\ UNCHANGED <<requests, workers, millis, upload>>
\* const extractedData = parseReceiptText(data.text, data.confidence)
ParseReceipt ==
  /\ pc = "recognized"
  /\ extractedData' = parseReceiptText(text, overallConfidence)
  /\ previous' = Append(previous, [text |-> text, confidence |-> overallConfidence,
                                   at |-> now, result |-> extractedData'])
  /\ pc' = "parsed"
  /\ UNCHANGED <<now, tz, text, overallConfidence, validationErrors, response>>
  /\ UNCHANGED <<requests, workers, millis, upload>>

\* const validationErrors = validateExtractedData(extractedData)
Validate ==
  /\ pc = "parsed"
  /\ validationErrors' = validateExtractedData(extractedData)
  /\ pc' = "validated"
  /\ UNCHANGED <<now, tz, text, overallConfidence, extractedData, response, previous>>
  /\ UNCHANGED <<requests, workers, millis, upload>>

\* res.status(422).json(...)
RespondInvalid ==
  /\ pc = "validated"
  /\ Len(validationErrors) > 0
  /\ response' = [NoResponse EXCEPT !.status = 422]
  /\ pc' = "responded"
  /\ UNCHANGED <<now, tz, text, overallConfidence, extractedData, validationErrors, previous>>
  /\ UNCHANGED <<requests, workers, millis, upload>>

\* res.json({success: true, ...})
RespondSuccess ==
  /\ pc = "validated"
  /\ Len(validationErrors) = 0
  /\ response' =
       [status |-> 200,
        amount |-> parseFloat(extractedData.amount),
        suggested_category |->
          determineMedicalCategory(extractedData.store_name, extractedData.line_items),
        review_required |-> extractedData.confidence_scores.overall < 7500,
        fields_to_verify |-> getFieldsToVerify(extractedData.confidence_scores)]
  /\ pc' = "responded"
  /\ UNCHANGED <<now, tz, text, overallConfidence, extractedData, validationErrors, previous>>
  /\ UNCHANGED <<requests, workers, millis, upload>>

Next == ParseReceipt \/ Validate \/ RespondInvalid \/ RespondSuccess

(***************************************************************************)
(* Inputs.                                                                 *)
(***************************************************************************)
MaxFree == 2
\* the requests of one run, and the half days the clock moves on during it
MaxCalls == 3
MaxTicks == 2

\* hours since the epoch of hour h of a civil day
At(y, m, d, h) == DaysFromCivil(y, m, d) * 24 + h

\* the texts of k pad lines followed by at most MaxFree lines of the corpus
Texts(padLine, pads, corpus) ==
  {join([i \in 1..k |-> padLine] \o free, "\n") :
     k \in pads, free \in UNION {[1..n -> corpus] : n \in 0..MaxFree}}

\* a clock is a pair of the time and the time zone of the host
InitWith(texts, confs, clocks) ==
  /\ text \in texts
  /\ overallConfidence \in confs
  /\ \E c \in clocks : now = c[1] /\ tz = c[2]
  /\ pc = "recognized"
  /\ extractedData = NoData
  /\ validationErrors = <<>>
  /\ response = NoResponse
  /\ previous = <<>>
  /\ requests = <<>>
  /\ workers = <<>>
  /\ millis = 0
  /\ upload = <<>>

\* a line no pattern matches and the store name fallback passes over
Inert == <<"1","2","3","4","5">>
Noon == <<At(2026, 11, 2, 12), 0>>

\* amounts: keyword, position and decimal-point bonuses, the ceiling
InitAmount == InitWith(Texts(Inert, {0, 2},
           {<<"T","O","T","A","L"," ","A","M","O","U","N","T"," ","5",".","0","0">>, <<"T","O","T","A","L"," ","A","M","O","U","N","T"," ","7",".","0","0">>, <<"T","O","T","A","L"," ","9">>, <<"6",".","2","5">>,
            <<"$","8",".","0","0"," ","B","A","L","A","N","C","E">>, <<"9","9","9","9","9","9",".","9","9"," ","T","O","T","A","L">>}),
           {90}, {Noon})
SpecAmount == InitAmount /\ [][Next]_vars

\* store names: one line per pattern, and lines only the fallback takes
InitStore == InitWith(Texts(Inert, {0, 4},
           {<<"C","V","S">>, <<"M","A","I","N"," ","S","T","R","E","E","T"," ","M","A","R","K","E","T">>, <<"D","R"," ","S","M","I","T","H"," ","J","O","N","E","S">>, <<"J","O","E","S"," ","&"," ","S","O","N","S">>,
            <<"T","O","T","A","L"," ","9",".","0","0">>, <<"a","b">>}),
           {90}, {Noon})
SpecStore == InitStore /\ [][Next]_vars

\* dates around the two-year window of 2026-11-02, on three clocks, alone or
\* after nine lines with a store name and an amount
InitDate == InitWith(Texts(<<"C","V","S"," ","T","O","T","A","L"," ","9",".","0","0">>, {0, 9},
           {<<"1","1","/","0","1","/","2","0","2","4">>, <<"2","0","2","4","-","1","1","-","0","2">>, <<"1","1","/","0","2","/","2","0","2","6"," ","0","8","-","0","7","-","2","0","2","5">>}),
           {90}, {<<At(2026, 11, 2, 3), 0 - 5>>, Noon, <<At(2026, 11, 2, 22), 9>>})
SpecDate == InitDate /\ [][Next]_vars

\* categories: store names and items for each rule, after a total line, read
\* well and read too poorly to be answered
InitCategory == InitWith(Texts(<<"T","O","T","A","L"," ","9",".","0","0">>, {1},
           {<<"C","L","I","N","I","C"," ","P","H","A","R","M","A","C","Y"," ","S","T","O","R","E">>, <<"T","O","O","T","H"," ","F","A","I","R","Y">>, <<"E","Y","E"," ","C","L","I","N","I","C">>, <<"C","I","T","Y"," ","M","E","D","I","C","A","L"," ","G","R","O","U","P">>,
            <<"O","r","t","h","o","d","o","n","t","i","c"," ","w","a","x"," ","5",".","9","9">>, <<"D","e","n","t","a","l"," ","f","l","o","s","s"," ","3",".","4","9">>, <<"T","h","e","r","m","o","m","e","t","e","r"," ","1","2",".","0","0">>}),
           {10, 90}, {Noon})
SpecCategory == InitCategory /\ [][Next]_vars

\* validation and review: missing fields and confidences around the floors
InitReview == InitWith(Texts(Inert, {0},
           {<<"C","V","S">>, <<"T","O","T","A","L"," ","9",".","0","0">>, <<"a","+","+","+">>, <<"0","8","/","0","7","/","2","0","2","6">>, <<"A","M","O","U","N","T"," ","3">>}),
           {10, 20, 69, 70, 72, 75, 90}, {Noon})
SpecReview == InitReview /\ [][Next]_vars

\* bounds: too large an amount, too dear an item, more than fifteen items,
\* confidences outside 0..100
InitBounds == InitWith(Texts(<<"A","d","v","i","l"," "," ","1","2",".","9","9">>, {0, 16},
           {<<"T","O","T","A","L"," ","9",".","0","0">>, <<"9","9","9","9","9","9",".","9","9"," ","T","O","T","A","L">>, <<"G","a","d","g","e","t"," ","1","5","0","0",".","0","0">>}),
           {0 - 5, 50, 150}, {Noon})
SpecBounds == InitBounds /\ [][Next]_vars

\* repeated requests while the clock moves on: a receipt dated at the edge of
\* the window of 2026-11-02, and a text without amount or date
RepeatTexts == {join(<<<<"C","V","S">>, <<"T","O","T","A","L"," ","9",".","0","0">>, <<"1","1","/","0","2","/","2","0","2","4">>>>, "\n"), <<"C","V","S">>}
RepeatStart == At(2026, 11, 2, 20)
InitRepeat == InitWith(RepeatTexts, {90}, {<<RepeatStart, 0>>})
\* new Date() reads a later time: half a day passes before a request is parsed
Tick ==
  /\ pc = "recognized"
  /\ now < RepeatStart + 12 * MaxTicks
  /\ now' = now + 12
  /\ UNCHANGED <<tz, text, overallConfidence, pc, extractedData, validationErrors, response,
                 previous>>
  /\ UNCHANGED <<requests, workers, millis, upload>>
\* the next request arrives: its record, errors and response are its own
NextRequest ==
  /\ pc = "responded"
  /\ Len(previous) < MaxCalls
  /\ text' \in RepeatTexts
  /\ pc' = "recognized"
  /\ extractedData' = NoData
  /\ validationErrors' = <<>>
  /\ response' = NoResponse
  /\ UNCHANGED <<now, tz, overallConfidence, previous>>
  /\ UNCHANGED <<requests, workers, millis, upload>>
NextRepeat == Next \/ Tick \/ NextRequest
SpecRepeat == InitRepeat /\ [][NextRepeat]_vars

\* Scenario A of the specification, read well and read too poorly to be
\* answered, on days that have 2024-08-07 in their two-year window, in three
\* time zones
ScenarioA ==
  join(<<<<"C","V","S"," ","P","H","A","R","M","A","C","Y">>, <<"1","2","3"," ","M","A","I","N"," ","S","T">>, <<"A","d","v","i","l"," "," ","1","2",".","9","9">>, <<"T","a","x"," "," ","1",".","0","1">>, <<"T","O","T","A","L"," ","$","1","4",".","0","0">>,
         <<"0","8","/","0","7","/","2","0","2","4">>>>, "\n")
InitScenario ==
  InitWith({ScenarioA}, {10, 90},
           {<<At(d[1], d[2], d[3], h), z>> :
              d \in {<<2024, 8, 8>>, <<2025, 3, 1>>, <<2026, 8, 6>>}, h \in {1, 12},
              z \in {0 - 5, 0, 9}})
SpecScenario == InitScenario /\ [][Next]_vars

\* line items: none or sixteen priced lines, then a line starting with a
\* keyword, a price without fraction, a description of punctuation, one of two
\* characters, and priced lines of 61 and of 60 characters
InitItems == InitWith(Texts(<<"A","d","v","i","l"," "," ","1","2",".","9","9">>, {0, 16},
           {<<"T","o","t","a","l"," ","9",".","0","0">>, <<"A","s","p","i","r","i","n"," ","5">>, <<"+","+","+"," "," ","1",".","0","0">>, <<"a","b"," ","1",".","0","0">>,
            [i \in 1..55 |-> "x"] \o <<" "," ","1",".","0","0">>, [i \in 1..54 |-> "x"] \o <<" "," ","1",".","0","0">>}),
           {90}, {Noon})
SpecItems == InitItems /\ [][Next]_vars

\* calendar days: a month 13, a 30th of February and two real days, written
\* with slashes and with dashes, read well and read too poorly to be answered,
\* on three clocks
InitCalendar == InitWith(Texts(<<"C","V","S"," ","T","O","T","A","L"," ","9",".","0","0">>, {1},
           {<<"1","3","/","0","5","/","2","0","2","5">>, <<"0","2","/","3","0","/","2","0","2","6">>, <<"0","8","/","0","7","/","2","0","2","5">>, <<"8","-","7","-","2","0","2","5">>}),
           {10, 90}, {<<At(2026, 11, 2, 3), 0 - 5>>, Noon, <<At(2026, 11, 2, 22), 9>>})
SpecCalendar == InitCalendar /\ [][Next]_vars

Init == InitAmount \/ InitStore \/ InitDate \/ InitCategory \/ InitReview \/ InitBounds
Spec == Init /\ [][Next]_vars

(***************************************************************************)
(* The service: POST /api/ocr/extract from the arrival of a request to its *)
(* response, with processReceiptOCR step by step, two requests in flight.  *)
(***************************************************************************)
\* parseInt(process.env.MAX_IMAGE_SIZE) || 10 * 1024 * 1024
MAX_IMAGE_SIZE == 10485760
\* the milliseconds Date.now() moves on while the requests are served
MaxMillis == 1
Requests == {1, 2}
\* the variables of the single request above
oneRequest == <<now, tz, text, overallConfidence, pc, extractedData, validationErrors,
                response, previous>>

\* what a request meets: its body, the image service, the image and the OCR
\* engine; here all goes well
Smooth(txt) ==
  [image_id |-> TRUE, available |-> TRUE, fetched |-> TRUE, size |-> MAX_IMAGE_SIZE,
   created |-> TRUE, configured |-> TRUE, recognition |-> "data", text |-> txt,
   confidence |-> 90]
Receipt == join(<<<<"C","V","S">>, <<"T","O","T","A","L"," ","9",".","0","0">>>>, "\n")
\* two receipts read without failure, the second without an amount, and one
\* failure at each step
Meetings ==
  {Smooth(Receipt), Smooth(<<"C","V","S">>),
   [Smooth(Receipt) EXCEPT !.image_id = FALSE], [Smooth(Receipt) EXCEPT !.available = FALSE],
   [Smooth(Receipt) EXCEPT !.fetched = FALSE],
   [Smooth(Receipt) EXCEPT !.size = MAX_IMAGE_SIZE + 1],
   [Smooth(Receipt) EXCEPT !.created = FALSE], [Smooth(Receipt) EXCEPT !.configured = FALSE],
   [Smooth(Receipt) EXCEPT !.recognition = "error"],
   [Smooth(Receipt) EXCEPT !.recognition = "timeout"]}

\* a request before its handler runs
Arriving(meets) ==
  [pc |-> "arriving", meets |-> meets, requestId |-> 0, worker |-> 0, extractedData |-> NoData,
   error |-> "", responses |-> <<>>]

\* res.status(status).json(...); request_id 0: the body carries none
Body(status, code, id, errors, data) ==
  [status |-> status, error_code |-> code, request_id |-> id, validation_errors |-> errors,
   data |-> data, amount |-> 0, suggested_category |-> "", review_required |-> FALSE,
   fields_to_verify |-> <<>>]
send(q, body) == [q EXCEPT !.pc = "done", !.responses = Append(@, body)]
\* res.json({success: true, request_id: requestId, ...})
Success(id, data) ==
  [Body(200, "", id, <<>>, data) EXCEPT
     !.amount = parseFloat(data.amount),
     !.suggested_category = determineMedicalCategory(data.store_name, data.line_items),
     !.review_required = data.confidence_scores.overall < 7500,
     !.fields_to_verify = getFieldsToVerify(data.confidence_scores)]

\* const requestId = Date.now().toString(); the test of image_id
Receive(r) ==
  /\ requests[r].pc = "arriving"
  /\ requests' =
       [requests EXCEPT ![r] =
          IF ~@.meets.image_id
          THEN send([@ EXCEPT !.requestId = millis], Body(400, "NO_IMAGE_ID", 0, <<>>, NoData))
          ELSE [@ EXCEPT !.requestId = millis, !.pc = "health"]]
  /\ UNCHANGED <<workers, millis, upload>>
  /\ UNCHANGED oneRequest

\* if (!await isImageServiceAvailable()): false only when the request throws
isImageServiceAvailable(r) ==
  /\ requests[r].pc = "health"
  /\ requests' =
       [requests EXCEPT ![r] =
          IF ~@.meets.available
          THEN send(@, Body(503, "IMAGE_SERVICE_DOWN", 0, <<>>, NoData))
          ELSE [@ EXCEPT !.pc = "fetch"]]
  /\ UNCHANGED <<workers, millis, upload>>
  /\ UNCHANGED oneRequest

\* imageData = await fetchImageFromService(image_id), and the test of the
\* size; axios rejects a response of more than maxContentLength bytes
fetchImageFromService(r) ==
  /\ requests[r].pc = "fetch"
  /\ requests' =
       [requests EXCEPT ![r] =
          IF ~@.meets.fetched \/ @.meets.size > MAX_IMAGE_SIZE
          THEN send(@, Body(404, "IMAGE_FETCH_FAILED", 0, <<>>, NoData))
          ELSE IF @.meets.size > MAX_IMAGE_SIZE
          THEN send(@, Body(400, "IMAGE_TOO_LARGE", 0, <<>>, NoData))
          ELSE [@ EXCEPT !.pc = "create"]]
  /\ UNCHANGED <<workers, millis, upload>>
  /\ UNCHANGED oneRequest

\* processReceiptOCR: worker = await Tesseract.createWorker(...); when it
\* rejects worker stays null and the call settles from the catch block, whose
\* Error(`OCR processing failed: ${error.message}`) is kept as its prefix,
\* followed by the message of the timer when the timer fired
createWorker(r) ==
  /\ requests[r].pc = "create"
  /\ IF requests[r].meets.created
     THEN /\ workers' = Append(workers, [state |-> "running", job |-> "idle"])
          /\ requests' = [requests EXCEPT ![r].pc = "parameters", ![r].worker = Len(workers) + 1]
     ELSE /\ requests' = [requests EXCEPT ![r].pc = "settled",
                                          ![r].error = "OCR processing failed"]
          /\ UNCHANGED workers
  /\ UNCHANGED <<millis, upload>>
  /\ UNCHANGED oneRequest

\* await worker.setParameters(...), then const ocrPromise = worker.recognize(...)
setParameters(r) ==
  /\ requests[r].pc = "parameters"
  /\ IF requests[r].meets.configured
     THEN /\ workers' = [workers EXCEPT ![requests[r].worker].job = "recognizing"]
          /\ requests' = [requests EXCEPT ![r].pc = "race"]
     ELSE /\ requests' = [requests EXCEPT ![r].pc = "finally",
                                          ![r].error = "OCR processing failed"]
          /\ UNCHANGED workers
  /\ UNCHANGED <<millis, upload>>
  /\ UNCHANGED oneRequest

\* the race with extractedData a variable of the module, shared by the requests
raceShared(r) ==
  /\ requests[r].pc = "race"
  /\ CASE requests[r].meets.recognition = "data" ->
            /\ workers' = [workers EXCEPT ![requests[r].worker].job = "resolved"]
            /\ requests' =
                 [q \in Requests |->
                    [requests[q] EXCEPT !.pc = IF q = r THEN "finally" ELSE @,
                                        !.extractedData =
                                           parseReceiptText(requests[r].meets.text,
                                                            requests[r].meets.confidence)]]
       [] requests[r].meets.recognition = "error" ->
            /\ workers' = [workers EXCEPT ![requests[r].worker].job = "rejected"]
            /\ requests' = [requests EXCEPT ![r].pc = "finally",
                                            ![r].error = "OCR processing failed"]
       [] OTHER ->
            /\ requests' = [requests EXCEPT ![r].pc = "finally",
                                            ![r].error = "OCR processing failed: OCR timeout"]
            /\ UNCHANGED workers
  /\ UNCHANGED <<millis, upload>>
  /\ UNCHANGED oneRequest
\* await Promise.race([ocrPromise, timeoutPromise]): the recognition resolves
\* and its text is parsed, or it rejects, or the timer fires while it runs
race(r) ==
  /\ requests[r].pc = "race"
  /\ CASE requests[r].meets.recognition = "data" ->
            /\ workers' = [workers EXCEPT ![requests[r].worker].job = "resolved"]
            /\ requests' =
                 [requests EXCEPT ![r].pc = "finally",
                                  ![r].extractedData =
                                     parseReceiptText(requests[r].meets.text,
                                                      requests[r].meets.confidence)]
       [] requests[r].meets.recognition = "error" ->
            /\ workers' = [workers EXCEPT ![requests[r].worker].job = "rejected"]
            /\ requests' = [requests EXCEPT ![r].pc = "finally",
                                            ![r].error = "OCR processing failed"]
       [] OTHER ->
            /\ requests' = [requests EXCEPT ![r].pc = "finally",
                                            ![r].error = "OCR processing failed: OCR timeout"]
            /\ UNCHANGED workers
  /\ UNCHANGED <<millis, upload>>
  /\ UNCHANGED oneRequest

\* the worker terminated at the end of the try block only
terminateResolved(r) ==
  /\ requests[r].pc = "finally"
  /\ workers' = [workers EXCEPT ![requests[r].worker].state =
                                  IF requests[r].error = "" THEN "terminated" ELSE @]
  /\ requests' = [requests EXCEPT ![r].pc = "settled"]
  /\ UNCHANGED <<millis, upload>>
  /\ UNCHANGED oneRequest
\* finally { if (worker) await worker.terminate() }, after which the call settles
terminate(r) ==
  /\ requests[r].pc = "finally"
  /\ workers' = [workers EXCEPT ![requests[r].worker].state = "terminated"]
  /\ requests' = [requests EXCEPT ![r].pc = "settled"]
  /\ UNCHANGED <<millis, upload>>
  /\ UNCHANGED oneRequest

\* the handler after await processReceiptOCR(...): the catch block, or
\* validateExtractedData and the response 422 or 200
answer(q, errors) ==
  IF q.error # "" THEN send(q, Body(500, "PROCESSING_ERROR", q.requestId, <<>>, NoData))
  ELSE IF Len(errors) > 0
  THEN send(q, Body(422, "VALIDATION_FAILED", 0, errors, q.extractedData))
  ELSE send(q, Success(q.requestId, q.extractedData))
Respond(r) ==
  /\ requests[r].pc = "settled"
  /\ requests' =
       [requests EXCEPT ![r] = answer(@, IF @.error # "" THEN <<>>
                                         ELSE validateExtractedData(@.extractedData))]
  /\ UNCHANGED <<workers, millis, upload>>
  /\ UNCHANGED oneRequest

\* a millisecond passes; Date.now() is read when a request arrives, so time
\* passing after the last arrival is left out
Elapse ==
  /\ millis < 1 + MaxMillis
  /\ \E r \in Requests : requests[r].pc = "arriving"
  /\ millis' = millis + 1
  /\ UNCHANGED <<requests, workers, upload>>
  /\ UNCHANGED oneRequest

NextService ==
  \/ \E r \in Requests :
       \/ Receive(r) \/ isImageServiceAvailable(r) \/ fetchImageFromService(r)
       \/ createWorker(r) \/ setParameters(r) \/ race(r) \/ terminate(r) \/ Respond(r)
  \/ Elapse

\* the clock at noon and no single request under way
NoRequest ==
  /\ now = Noon[1] /\ tz = Noon[2]
  /\ text = <<>> /\ overallConfidence = 0
  /\ pc = "idle"
  /\ extractedData = NoData
  /\ validationErrors = <<>>
  /\ response = NoResponse
  /\ previous = <<>>
InitService ==
  /\ NoRequest
  /\ requests \in [Requests -> {Arriving(meets) : meets \in Meetings}]
  /\ workers = <<>>
  /\ millis = 1
  /\ upload = <<>>
SpecService == InitService /\ [][NextService]_vars

(***************************************************************************)
(* The upload service: POST /ocr/extract behind multer's upload.single.    *)
(***************************************************************************)
\* limits: { fileSize: 10 * 1024 * 1024 }
fileSize == 10485760
allowedMimes == {"image/jpeg", "image/jpg", "image/png", "application/pdf"}
startsWithImage(mimetype) ==
  mimetype \in {"image/jpeg", "image/jpg", "image/png", "image/gif", "image/webp"}
\* the files sent: a type, a size, and the text found in it or "" for a file
\* the extraction fails on
Files ==
  [mimetype : allowedMimes \cup {"image/gif", "image/webp", "text/plain"},
   size : {fileSize, fileSize + 1},
   found : {"", "CVS  TOTAL 9.00", "EYE\nCLINIC"}]
NoFile == [mimetype |-> "", size |-> 0, found |-> ""]
Sent(file) == [pc |-> "multer", file |-> file, error |-> "", status |-> 0, message |-> "",
               text |-> ""]

\* upload.single('file'): fileFilter as the file begins, the limit while it is read
uploadSingle ==
  /\ upload.pc = "multer"
  /\ upload' =
       IF upload.file = NoFile THEN [upload EXCEPT !.pc = "handler"]
       ELSE IF upload.file.mimetype \notin allowedMimes
       THEN [upload EXCEPT !.pc = "error", !.error = "Error"]
       ELSE IF upload.file.size > fileSize
       THEN [upload EXCEPT !.pc = "error", !.error = "LIMIT_FILE_SIZE"]
       ELSE [upload EXCEPT !.pc = "handler"]
  /\ UNCHANGED <<requests, workers, millis>>
  /\ UNCHANGED oneRequest

\* the text as returned: newlines and runs of white space made one space
cleanedText(extractedText) == trim(collapseSpace(extractedText))
reply(status, message, cleaned) ==
  [upload EXCEPT !.pc = "responded", !.status = status, !.message = message, !.text = cleaned]
\* app.post('/ocr/extract', upload.single('file'), ...)
ocrExtract ==
  /\ upload.pc = "handler"
  /\ upload' =
       IF upload.file = NoFile THEN reply(400, "No file provided", "")
       ELSE IF upload.file.mimetype # "application/pdf" /\ ~startsWithImage(upload.file.mimetype)
       THEN reply(400, "Unsupported file type", "")
       ELSE IF upload.file.found = "" THEN reply(500, "OCR extraction failed", "")
       ELSE reply(200, "Text extracted successfully", upload.file.found)
  /\ UNCHANGED <<requests, workers, millis>>
  /\ UNCHANGED oneRequest

\* app.use((error, req, res, next) => ...)
errorMiddleware ==
  /\ upload.pc = "error"
  /\ upload' =
       IF upload.error = "LIMIT_FILE_SIZE" THEN reply(400, "File too large", "")
       ELSE reply(500, "Internal server error", "")
  /\ UNCHANGED <<requests, workers, millis>>
  /\ UNCHANGED oneRequest

NextUpload == uploadSingle \/ ocrExtract \/ errorMiddleware
InitUpload ==
  /\ NoRequest
  /\ requests = <<>>
  /\ workers = <<>>
  /\ millis = 1
  /\ upload \in {Sent(file) : file \in Files \cup {NoFile}}
SpecUpload == InitUpload /\ [][NextUpload]_vars

(***************************************************************************)
(* Properties.                                                             *)
(***************************************************************************)
\* the lines parseReceiptText hands to the extractors
Lines == normalizeLines(text)
Parsed == pc = "parsed"
Answered == pc = "responded" /\ response.status = 200

\* C1 ------------------------------------------------------------------
\* the candidates of extractAmount: the visits whose pattern matches an
\* amount strictly between 0 and 10000, with the capped score of each
amountOf(lines, v) == parseFloat(Group(lines[v.index + 1], amountMatch(lines, v.index, v.p), 1))
cappedScore(lines, v) ==
  MinNum(amountScore(lines, v.index,
                     Group(lines[v.index + 1], amountMatch(lines, v.index, v.p), 1)), 9500)
amountCandidates(lines) ==
  SelectSeq(amountHits(lines), LAMBDA v : amountOf(lines, v) > 0 /\ amountOf(lines, v) < 1000000)
bestScore(lines, cands) == MaxOf({cappedScore(lines, cands[k]) : k \in DOMAIN cands})
firstWith(lines, cands, score) == MinOf({k \in DOMAIN cands : cappedScore(lines, cands[k]) = score})
firstHighest(lines, cands) ==
  IF Len(cands) = 0 THEN NotFound
  ELSE [value |-> toFixed2(amountOf(lines, cands[firstWith(lines, cands, bestScore(lines, cands))])),
        confidence |-> bestScore(lines, cands)]
sameAmount(data, best) ==
  data.amount = best.value /\ data.confidence_scores.amount = best.confidence
\* C1: the amount returned is that of the candidate with the highest capped
\* score, and among candidates of equal capped score that of the first in
\* line-then-pattern order
C1_FirstHighestCandidate ==
  Parsed => sameAmount(extractedData, firstHighest(Lines, amountCandidates(Lines)))

\* C2 ------------------------------------------------------------------
storeMatches(line) == {p \in DOMAIN storePatterns : match(trim(line), storePatterns[p], TRUE).ok}
storeLines(lines) == {k \in 1..MinNum(5, Len(lines)) : storeMatches(lines[k]) # {}}
storeByLine(lines, k, p) ==
  [value |-> cleanStoreName(storeNameOf(trim(lines[k]), match(trim(lines[k]), storePatterns[p], TRUE))),
   \* 0.7 + 0.3 * (5 - i) / 5 for line index i = k - 1
   confidence |-> storeConfidence(k - 1)]
fallbackLines(lines) ==
  {k \in DOMAIN lines : /\ Len(lines[k]) > 3 /\ Len(lines[k]) < 50
                        /\ \E j \in DOMAIN lines[k] : lines[k][j] \in Letter}
storeExpected(lines) ==
  IF storeLines(lines) # {}
  THEN storeByLine(lines, MinOf(storeLines(lines)), MinOf(storeMatches(lines[MinOf(storeLines(lines))])))
  ELSE IF fallbackLines(lines) # {}
  THEN [value |-> cleanStoreName(lines[MinOf(fallbackLines(lines))]), confidence |-> 3000]
  ELSE NotFound
sameStore(data, expected) ==
  data.store_name = expected.value /\ data.confidence_scores.store_name = expected.confidence
\* C2: the store name comes from the lowest-indexed of the first 5 lines that
\* any pattern matches, from the highest-priority pattern matching that line,
\* with confidence 0.7 + 0.3 * (5 - i) / 5; failing that from the first line
\* of length in (3, 50) with a letter, confidence 0.3; failing that it is empty
C2_EarliestLineWins == Parsed => sameStore(extractedData, storeExpected(Lines))
\* a lower-priority pattern on an earlier line has beaten the chain pattern on a later line
C2_Witness ==
  /\ Parsed
  /\ \E k \in storeLines(Lines) : \E j \in storeLines(Lines) :
       /\ k < j /\ k = MinOf(storeLines(Lines))
       /\ 1 \notin storeMatches(Lines[k]) /\ 1 \in storeMatches(Lines[j])
       /\ extractedData.store_name =
            storeByLine(Lines, k, MinOf(storeMatches(Lines[k]))).value
       /\ extractedData.store_name # storeByLine(Lines, j, 1).value

\* C3 ------------------------------------------------------------------
\* the (line index, pattern) pairs of the first 10 lines, line by line
dateVisits(lines) ==
  [k \in 1..(MinNum(10, Len(lines)) * Len(datePatterns)) |->
     [i |-> (k - 1) \div Len(datePatterns), p |-> ((k - 1) % Len(datePatterns)) + 1]]
dateMatch(lines, v) == match(lines[v.i + 1], datePatterns[v.p].re, datePatterns[v.p].ci)
\* the date the matched text is read as
dateRead(lines, v) == dateOfString(Group(lines[v.i + 1], dateMatch(lines, v), 1))
\* midnight, local time, of today's day of the month two years ago
twoYearsAgo == TwoYearsBefore(LocalCivil(NewDateNow))
inWindow(date) == date.valid /\ date.t >= twoYearsAgo.t /\ date.t <= now
accepted(lines, v) == dateMatch(lines, v).ok /\ inWindow(dateRead(lines, v))
discarded(lines, v) == dateMatch(lines, v).ok /\ ~inWindow(dateRead(lines, v))
acceptedVisits(lines) == SelectSeq(dateVisits(lines), LAMBDA v : accepted(lines, v))
discardedVisits(lines) == SelectSeq(dateVisits(lines), LAMBDA v : discarded(lines, v))
dateIs(data, lines, v) ==
  /\ data.date = toISODate(dateRead(lines, v))
  \* 0.8 - 0.03 * i
  /\ data.confidence_scores.date = dateConfidence(v.i)
firstAccepted(data, lines, hits) == Len(hits) > 0 => dateIs(data, lines, hits[1])
before(v, w) == v.i < w.i \/ (v.i = w.i /\ v.p < w.p)
today == toISODate(NewDateNow)
flagsDate(fields) == \E k \in DOMAIN fields : fields[k] = "date"
placeholder(data) ==
  /\ data.date = today
  /\ Len(data.date) > 0
  /\ data.confidence_scores.date = 1000
  /\ flagsDate(getFieldsToVerify(data.confidence_scores))
\* C4: when no pair of the first 10 lines gives a date in the window, the date
\* is today's with confidence 0.1, never empty, and the fields to verify,
\* also those of the success response, include the date
C4_TodayWhenNoDate ==
  ((Parsed \/ Answered) /\ Len(acceptedVisits(Lines)) = 0) =>
     (placeholder(extractedData) /\ (Answered => flagsDate(response.fields_to_verify)))
\* a response whose date is the placeholder although a pattern had matched
C4_Witness ==
  /\ Answered
  /\ Len(acceptedVisits(Lines)) = 0
  /\ Len(discardedVisits(Lines)) > 0
  /\ extractedData.date = today
  /\ flagsDate(response.fields_to_verify)

\* C5 ------------------------------------------------------------------
\* the rules in their order: the keywords looked for in the store name and
\* those looked for in the item descriptions
categoryRules == <<
  [name |-> "Pharmacy", store |-> {<<"p","h","a","r","m","a","c","y">>, <<"c","v","s">>, <<"w","a","l","g","r","e","e","n","s">>, <<"r","i","t","e"," ","a","i","d">>}, items |-> {}],
  [name |-> "Dental", store |-> {<<"d","e","n","t","a","l">>, <<"o","r","t","h","o","d","o","n","t">>}, items |-> {<<"d","e","n","t","a","l">>, <<"t","o","o","t","h">>}],
  [name |-> "Vision", store |-> {<<"v","i","s","i","o","n">>, <<"e","y","e">>, <<"o","p","t","i","c","a","l">>}, items |-> {<<"g","l","a","s","s","e","s">>, <<"c","o","n","t","a","c","t">>}],
  [name |-> "Doctor Visit", store |-> {<<"d","r",".">>, <<"d","o","c","t","o","r">>, <<"c","l","i","n","i","c">>, <<"m","e","d","i","c","a","l">>}, items |-> {}],
  [name |-> "Medical Device", store |-> {},
   items |-> {<<"t","h","e","r","m","o","m","e","t","e","r">>, <<"b","a","n","d","a","g","e">>, <<"m","e","d","i","c","a","l"," ","d","e","v","i","c","e">>, <<"m","o","n","i","t","o","r">>}] >>
ruleMatches(rule, store, items) ==
  (\E w \in rule.store : includes(store, w)) \/ (\E w \in rule.items : includes(items, w))
matchingRules(store, items) ==
  {r \in DOMAIN categoryRules : ruleMatches(categoryRules[r], store, items)}
firstRule(matching) == IF matching = {} THEN "Other" ELSE categoryRules[MinOf(matching)].name
storeLower == toLowerCase(extractedData.store_name)
itemText == itemTextOf(extractedData.line_items)
\* C5: the category is that of the first rule, in the order Pharmacy, Dental,
\* Vision, Doctor Visit, Medical Device, that matches, and Other exactly when
\* none matches; a store name matching the Pharmacy and the clinic rule is Pharmacy
C5_FirstRuleWins ==
  Answered =>
    /\ response.suggested_category = firstRule(matchingRules(storeLower, itemText))
    /\ (response.suggested_category = "Other") = (matchingRules(storeLower, itemText) = {})
    /\ {1, 4} \subseteq matchingRules(storeLower, itemText) =>
         response.suggested_category = "Pharmacy"
\* a store name with both "pharmacy" and "clinic" was classified
C5_Witness ==
  /\ Answered
  /\ includes(storeLower, <<"p","h","a","r","m","a","c","y">>) /\ includes(storeLower, <<"c","l","i","n","i","c">>)
  /\ response.suggested_category = "Pharmacy"

\* C6 ------------------------------------------------------------------
dentalWords == {<<"d","e","n","t","a","l">>, <<"o","r","t","h","o","d","o","n","t">>, <<"t","o","o","t","h">>}
\* C6: unless the Pharmacy rule matches, a store name or an item description
\* containing "dental", "orthodont" or "tooth" makes the category Dental
C6_DentalKeywordsEverywhere ==
  (/\ Answered
   /\ 1 \notin matchingRules(storeLower, itemText)
   /\ \E w \in dentalWords : includes(storeLower, w) \/ includes(itemText, w))
  => response.suggested_category = "Dental"

\* C7 ------------------------------------------------------------------
\* the confidences the response flags and those it does not
scores == extractedData.confidence_scores
flaggedScores ==
  {scores[f] : f \in Range(response.fields_to_verify)} \cup
  (IF response.review_required THEN {scores.overall} ELSE {})
passedScores ==
  {scores[f] : f \in {"store_name", "amount", "date"} \ Range(response.fields_to_verify)} \cup
  (IF response.review_required THEN {} ELSE {scores.overall})
inFieldOrder(fields) ==
  \A i \in DOMAIN fields : \A j \in DOMAIN fields :
    i < j => \/ fields[i] = "store_name"
             \/ (fields[i] = "amount" /\ fields[j] = "date")
\* C7: one threshold decides review_required and fields_to_verify: every
\* confidence the response flags is below every confidence it does not flag,
\* and the flagged fields come in the order store_name, amount, date
C7_OneThreshold ==
  Answered =>
    /\ \A c \in flaggedScores : \A d \in passedScores : c < d
    /\ inFieldOrder(response.fields_to_verify)

\* C8 ------------------------------------------------------------------
sameArguments(a, b) == a.text = b.text /\ a.confidence = b.confidence
sameButDate(r, s) ==
  /\ r.store_name = s.store_name
  /\ r.amount = s.amount
  /\ r.line_items = s.line_items
  /\ r.confidence_scores.store_name = s.confidence_scores.store_name
  /\ r.confidence_scores.amount = s.confidence_scores.amount
  /\ r.confidence_scores.overall = s.confidence_scores.overall
isScore(c) == c >= 0 /\ c <= 10000
amountInRange(amount) ==
  Len(amount) > 0 => (parseFloat(amount) > 0 /\ parseFloat(amount) < 1000000)
pricesInRange(items) ==
  \A k \in DOMAIN items : parseFloat(items[k].price) > 0 /\ parseFloat(items[k].price) < 100000
\* C9: in the record parseReceiptText returns, the four confidence scores are
\* in [0, 1], the amount if any is strictly between 0 and 10000, there are at
\* most 15 line items, and every price is strictly between 0 and 1000
C9_RecordWithinBounds ==
  Parsed =>
    /\ isScore(scores.store_name) /\ isScore(scores.amount)
    /\ isScore(scores.date) /\ isScore(scores.overall)
    /\ amountInRange(extractedData.amount)
    /\ Len(extractedData.line_items) <= 15
    /\ pricesInRange(extractedData.line_items)
hasLine(lines, line) == \E k \in DOMAIN lines : lines[k] = line
\* sixteen priced lines, an item at 1500.00 and the amount 999999.99 were read,
\* with a confidence above 100
C9_Witness ==
  /\ Parsed
  /\ Len(Lines) > 16
  /\ hasLine(Lines, <<"9","9","9","9","9","9",".","9","9"," ","T","O","T","A","L">>) /\ hasLine(Lines, <<"G","a","d","g","e","t"," ","1","5","0","0",".","0","0">>)
  /\ Len(extractedData.line_items) = 15
  /\ overallConfidence > 100 /\ scores.overall = 10000

\* C10 -----------------------------------------------------------------
\* the rules in their order, each with its message
violations(data) == <<
  [message |-> StoreNameError,
   violated |-> Len(data.store_name) = 0 \/ Len(trim(data.store_name)) < 2],
  [message |-> AmountError,
   violated |-> Len(data.amount) = 0 \/ isNaN(parseFloat(data.amount))
                \/ parseFloat(data.amount) <= 0],
  [message |-> DateError, violated |-> Len(data.date) = 0 \/ ~isValidDate(data.date)],
  [message |-> ConfidenceError, violated |-> data.confidence_scores.overall < 2000] >>
reported(rules, errors) ==
  /\ \A r \in DOMAIN rules : rules[r].violated = (\E k \in DOMAIN errors : errors[k] = rules[r].message)
  /\ Len(errors) = Cardinality({r \in DOMAIN rules : rules[r].violated})
  /\ \A i \in DOMAIN errors : \A j \in DOMAIN errors :
       i < j => \E r \in DOMAIN rules : \E q \in DOMAIN rules :
                  r < q /\ errors[i] = rules[r].message /\ errors[j] = rules[q].message
\* C10: validation returns one error for each violated rule and no other, in the
\* order store name, amount, date, overall confidence below 0.2; the list is
\* empty exactly when no rule is violated
C10_OneErrorPerViolatedRule ==
  pc \in {"validated", "responded"} =>
    /\ reported(violations(extractedData), validationErrors)
    /\ (Len(validationErrors) = 0) = (\A r \in 1..4 : ~violations(extractedData)[r].violated)
\* a record that violates the store name, the amount and the confidence rule
C10_Witness ==
  /\ pc = "validated"
  /\ validationErrors = <<StoreNameError, AmountError, ConfidenceError>>
  /\ Len(extractedData.store_name) = 1

\* C11 -----------------------------------------------------------------
\* C11: Scenario A read with confidence 90 yields store name "Cvs Pharmacy",
\* amount "14.00", date "2024-08-07" and exactly 2 line items, and is
\* classified Pharmacy
C11_ScenarioA ==
  (text = ScenarioA /\ overallConfidence = 90) =>
    /\ pc # "recognized" =>
         /\ extractedData.store_name = <<"C","v","s"," ","P","h","a","r","m","a","c","y">>
         /\ extractedData.amount = <<"1","4",".","0","0">>
         /\ extractedData.date = <<"2","0","2","4","-","0","8","-","0","7">>
         /\ Len(extractedData.line_items) = 2
    /\ pc = "responded" => response.status = 200 /\ response.suggested_category = "Pharmacy"

\* C12 -----------------------------------------------------------------
emptyIffUnscored(value, confidence) == (Len(value) = 0) = (confidence = 0)
\* C12: parseReceiptText returns a record for every text; in it the store
\* name is empty exactly when its confidence is 0, and so is the amount; for
\* an empty line sequence both are empty with confidence 0 and there are no
\* line items
C12_EmptyIffZeroConfidence ==
  Parsed =>
    /\ emptyIffUnscored(extractedData.store_name, scores.store_name)
    /\ emptyIffUnscored(extractedData.amount, scores.amount)
    /\ Len(Lines) = 0 =>
         /\ extractedData.store_name = <<>> /\ scores.store_name = 0
         /\ extractedData.amount = <<>> /\ scores.amount = 0
         /\ extractedData.line_items = <<>>
\* a text with a store name and no amount has been parsed
C12_Witness ==
  /\ Parsed
  /\ Len(extractedData.store_name) > 0 /\ scores.store_name > 0
  /\ extractedData.amount = <<>> /\ scores.amount = 0

\* C13 -----------------------------------------------------------------
startsWithKeyword(line) ==
  \E w \in Range(excludeWords) :
    Len(line) >= Len(w) /\ toLowerCase(SubSeq(line, 1, Len(w))) = w
\* the patterns whose match on a line passes the acceptance test
accepts(line, m) ==
  /\ m.ok
  /\ Len(trim(Group(line, m, 1))) > 2
  /\ parseFloat(Group(line, m, 2)) > 0
  /\ parseFloat(Group(line, m, 2)) < 100000
acceptingPatterns(line) ==
  {p \in DOMAIN itemPatterns : accepts(line, match(line, itemPatterns[p], FALSE))}
barred(line) == startsWithKeyword(line) \/ Len(line) < 3 \/ Len(line) > 60
itemLines(lines) == {k \in DOMAIN lines : ~barred(lines[k]) /\ acceptingPatterns(lines[k]) # {}}
nth(S, n) == CHOOSE k \in S : Cardinality({j \in S : j <= k}) = n
itemAccepted(line, m) ==
  [description |-> cleanItemDescription(trim(Group(line, m, 1))),
   price |-> toFixed2(parseFloat(Group(line, m, 2)))]
itemAt(line) ==
  itemAccepted(line, match(line, itemPatterns[MinOf(acceptingPatterns(line))], FALSE))
firstItems(lines, S) == [n \in 1..MinNum(15, Cardinality(S)) |-> itemAt(lines[nth(S, n)])]
itemsExpected(lines) == firstItems(lines, itemLines(lines))
\* C13: the line items are the accepted items of the lines in line order, at
\* most one per line, cut to the first 15; a line starting with an exclusion
\* keyword in any case, or of a length outside [3, 60], contributes none
C13_ItemsInLineOrder == Parsed => extractedData.line_items = itemsExpected(Lines)
\* more than fifteen lines carry an item, and a priced line starting with a
\* keyword and a priced line of 61 characters are among the lines
C13_Witness ==
  /\ Parsed
  /\ Cardinality(itemLines(Lines)) > 15 /\ Len(extractedData.line_items) = 15
  /\ \E k \in DOMAIN Lines : startsWithKeyword(Lines[k]) /\ acceptingPatterns(Lines[k]) # {}
  /\ \E k \in DOMAIN Lines : Len(Lines[k]) = 61 /\ acceptingPatterns(Lines[k]) # {}

\* C18 -----------------------------------------------------------------
\* C18: every line item emitted has a description longer than 2 characters
C18_DescriptionLongerThanTwo ==
  Parsed => \A k \in DOMAIN extractedData.line_items :
              Len(extractedData.line_items[k].description) > 2

\* C19 -----------------------------------------------------------------
\* month, day and year as written in the text a month-day-year pattern matched
writtenParts(lines, v) ==
  split(Group(lines[v.i + 1], dateMatch(lines, v), 1), IF v.p = 1 THEN "/" ELSE "-")
monthOf(parts) == DigitsValue(parts[1])
dayOf(parts) == DigitsValue(parts[2])
yearOf(parts) == DigitsValue(parts[3])
daysInMonth(year, month) == MakeDay(year, month, 1) - MakeDay(year, month - 1, 1)
realDay(parts) ==
  /\ monthOf(parts) >= 1 /\ monthOf(parts) <= 12
  /\ dayOf(parts) >= 1 /\ dayOf(parts) <= daysInMonth(yearOf(parts), monthOf(parts))
writtenDay(parts) ==
  Pad(yearOf(parts), 4) \o <<"-">> \o Pad(monthOf(parts), 2) \o <<"-">> \o Pad(dayOf(parts), 2)
sameDay(data, lines, hits) ==
  (Len(hits) > 0 /\ hits[1].p \in {1, 2}) =>
     /\ realDay(writtenParts(lines, hits[1]))
     /\ data.date = writtenDay(writtenParts(lines, hits[1]))
\* C19: the date returned for an accepted M/D/Y or M-D-Y match is the calendar
\* day written in the matched text; a text whose month is outside 1..12 or
\* whose day does not exist in its month is never accepted as another date
C19_SameCalendarDay == Parsed => sameDay(extractedData, Lines, acceptedVisits(Lines))

\* C14 -----------------------------------------------------------------
\* what a request produces when it is the only one in flight
reachesData(meets) ==
  /\ meets.image_id /\ meets.available /\ meets.fetched /\ meets.size <= MAX_IMAGE_SIZE
  /\ meets.created /\ meets.configured /\ meets.recognition = "data"
aloneRecord(meets) ==
  IF reachesData(meets) THEN parseReceiptText(meets.text, meets.confidence) ELSE NoData
aloneStatus(meets, errors) ==
  IF ~meets.image_id THEN 400
  ELSE IF ~meets.available THEN 503
  ELSE IF ~meets.fetched \/ meets.size > MAX_IMAGE_SIZE THEN 404
  ELSE IF ~reachesData(meets) THEN 500
  ELSE IF Len(errors) > 0 THEN 422 ELSE 200
asAlone(q, sent, record, errors) ==
  /\ sent.status = aloneStatus(q.meets, errors)
  /\ sent.status \in {200, 500} => sent.request_id = q.requestId
  /\ sent.status = 422 => sent.validation_errors = errors /\ sent.data = record
  /\ sent.status = 200 =>
       /\ sent.data = record
       /\ sent.amount = parseFloat(record.amount)
       /\ sent.suggested_category =
            determineMedicalCategory(record.store_name, record.line_items)
       /\ sent.review_required = (record.confidence_scores.overall < 7500)
       /\ sent.fields_to_verify = getFieldsToVerify(record.confidence_scores)
aloneAnswer(q, record) ==
  Len(q.responses) = 1 /\ asAlone(q, q.responses[1], record, validateExtractedData(record))
independent(q, record) ==
  /\ q.pc \in {"finally", "settled"} /\ q.error = "" => q.extractedData = record
  /\ q.pc = "done" => aloneAnswer(q, record)
\* C14: in every interleaving of two requests to POST /api/ocr/extract the
\* record, the validation outcome and the response of each are those it
\* produces alone; no worker is used by both
C14_RequestsIndependent ==
  /\ \A r \in Requests : independent(requests[r], aloneRecord(requests[r].meets))
  /\ \A r \in Requests : \A s \in Requests \ {r} :
       requests[r].worker # 0 => requests[r].worker # requests[s].worker
\* request 1 has been answered 200 while request 2, whose worker was created
\* first, holds the record of another receipt and is still to be answered
C14_Witness ==
  /\ requests[1].pc = "done" /\ requests[1].responses[1].status = 200
  /\ requests[2].pc = "settled" /\ requests[2].error = ""
  /\ requests[2].worker = 1 /\ requests[1].worker = 2
  /\ requests[2].extractedData # requests[1].extractedData

\* C15 -----------------------------------------------------------------
\* the status of the first failing step
claimedStatus(meets) ==
  IF ~meets.image_id THEN 400
  ELSE IF ~meets.available THEN 503
  ELSE IF ~meets.fetched THEN 404
  ELSE IF meets.size > MAX_IMAGE_SIZE THEN 400
  ELSE IF ~meets.created \/ ~meets.configured \/ meets.recognition # "data" THEN 500
  ELSE IF Len(validateExtractedData(parseReceiptText(meets.text, meets.confidence))) > 0
  THEN 422 ELSE 200
answeredOnce(q) ==
  /\ Len(q.responses) <= 1
  /\ q.pc = "done" =>
       /\ Len(q.responses) = 1
       /\ q.responses[1].status = claimedStatus(q.meets)
       /\ q.responses[1].status = 200 => validateExtractedData(q.extractedData) = <<>>
       /\ (~q.meets.image_id \/ q.meets.size > MAX_IMAGE_SIZE) => q.worker = 0
\* C15: a request gets exactly one response, with the status of its first
\* failing step: no image_id 400, image service unreachable 503, fetch failure
\* 404, image larger than MAX_IMAGE_SIZE 400 with no OCR started, OCR failure
\* or timeout 500, validation errors 422, else 200
C15_StatusOfFirstFailingStep == \A r \in Requests : answeredOnce(requests[r])

\* C16 -----------------------------------------------------------------
settledOrDone(q) == q.pc \in {"settled", "done"}
timerWins(meets) ==
  /\ meets.image_id /\ meets.available /\ meets.fetched /\ meets.size <= MAX_IMAGE_SIZE
  /\ meets.created /\ meets.configured /\ meets.recognition = "timeout"
\* C16: every worker created belongs to one call of processReceiptOCR and is
\* terminated when that call has settled, whether it returned, setParameters
\* or the recognition failed, or the timer won the race; in the last case the
\* call is rejected with 'OCR processing failed' while the recognition is
\* still running
C16_WorkerTerminatedBeforeSettled ==
  /\ \A w \in DOMAIN workers :
       \E r \in Requests :
         /\ requests[r].worker = w
         /\ settledOrDone(requests[r]) => workers[w].state = "terminated"
  /\ \A r \in Requests :
       (settledOrDone(requests[r]) /\ timerWins(requests[r].meets)) =>
          /\ requests[r].error = "OCR processing failed: OCR timeout"
          /\ workers[requests[r].worker].job = "recognizing"
\* a call settled by the timer: its worker is terminated, the recognition unfinished
C16_Witness ==
  \E r \in Requests :
    /\ requests[r].pc = "settled" /\ timerWins(requests[r].meets)
    /\ workers[requests[r].worker] = [state |-> "terminated", job |-> "recognizing"]

\* C20 -----------------------------------------------------------------
\* C20: any two requests received, concurrent ones included, have different
\* request ids
C20_DistinctRequestIds ==
  \A r \in Requests : \A s \in Requests \ {r} :
    (requests[r].pc # "arriving" /\ requests[s].pc # "arriving") =>
       requests[r].requestId # requests[s].requestId

\* C17 -----------------------------------------------------------------
\* C17: the upload endpoint answers 400 'No file provided' without a file and
\* 400 'Unsupported file type', never 500, for a file that is not JPEG, PNG
\* or PDF; it answers 500 only when the text extraction fails
C17_UploadStatus ==
  upload.pc = "responded" =>
    /\ upload.file = NoFile => upload.status = 400 /\ upload.message = "No file provided"
    /\ (upload.file # NoFile /\ upload.file.mimetype \notin allowedMimes) =>
         upload.status = 400 /\ upload.message = "Unsupported file type"
    /\ upload.status = 500 =>
         /\ upload.file # NoFile /\ upload.file.mimetype \in allowedMimes
         /\ upload.file.found = ""

====
